---- MODULE Spec2Model ----
(***************************************************************************)
(* Model of runner_usage_analyzer.py: the usage collector                  *)
(* (RunnerUsageAnalyzer), the aggregator (_group_results), the duration    *)
(* calculator, the two label classifiers, the three report emitters and    *)
(* main().                                                                  *)
(*                                                                          *)
(* Python strings are sequences of one-character strings, so that lower(), *)
(* title(), replace(), the substring test `in`, split() and the f-string   *)
(* formats are computed and not assumed.                                    *)
(***************************************************************************)
EXTENDS Integers, Sequences, FiniteSets, TLC

VARIABLES
    pc,         \* position of main(): which statement runs next
    env,        \* os.environ as read by main()
    api,        \* what the GitHub API holds (repository pages, runs, jobs)
    page,       \* get_repositories: page
    repos,      \* get_repositories: repos, then analyze_runner_usage: repos
    repoIdx,    \* analyze_runner_usage: index of the repository being processed
    runs,       \* analyze_runner_usage: runs of the current repository
    runIdx,     \* analyze_runner_usage: index of the run being processed
    results,    \* analyze_runner_usage: results
    usage_data, \* main: usage_data
    log,        \* the API requests issued so far, in order, with their outcome
    files,      \* the report artifacts written so far
    exc,        \* the exception that reached main()'s handler ("none" if none)
    exitCode,   \* process exit status (-1 while running)
    summary,    \* what generate_github_summary returned
    call        \* one call of a pure method: its name, arguments and outcome

vars == <<pc, env, api, page, repos, repoIdx, runs, runIdx, results,
          usage_data, log, files, exc, exitCode, summary, call>>

-----------------------------------------------------------------------------
(* Python str                                                               *)

UpperAlpha == <<"A","B","C","D","E","F","G","H","I","J","K","L","M",
                "N","O","P","Q","R","S","T","U","V","W","X","Y","Z">>
LowerAlpha == <<"a","b","c","d","e","f","g","h","i","j","k","l","m",
                "n","o","p","q","r","s","t","u","v","w","x","y","z">>
Digits == <<"0","1","2","3","4","5","6","7","8","9">>

IsUpper(c) == \E i \in 1..26 : UpperAlpha[i] = c
IsLower(c) == \E i \in 1..26 : LowerAlpha[i] = c
IsAlpha(c) == IsUpper(c) \/ IsLower(c)
IsDigit(c) == \E i \in 1..10 : Digits[i] = c

LowerChar(c) == IF IsUpper(c) THEN LowerAlpha[CHOOSE i \in 1..26 : UpperAlpha[i] = c] ELSE c
UpperChar(c) == IF IsLower(c) THEN UpperAlpha[CHOOSE i \in 1..26 : LowerAlpha[i] = c] ELSE c

\* str.lower()
Lower(s) == [i \in 1..Len(s) |-> LowerChar(s[i])]

\* str.title(): a cased character is upper-cased after an uncased one (or at
\* the start) and lower-cased after a cased one
Title(s) == [i \in 1..Len(s) |->
               IF i = 1 \/ ~IsAlpha(s[i-1]) THEN UpperChar(s[i]) ELSE LowerChar(s[i])]

\* sub in s (substring test)
Contains(sub, s) ==
    \E i \in 0..(Len(s) - Len(sub)) : SubSeq(s, i + 1, i + Len(sub)) = sub

\* x in l (list membership)
InList(x, l) == \E i \in 1..Len(l) : l[i] = x

\* sep.join(l)
RECURSIVE Join(_, _)
Join(sep, l) ==
    IF Len(l) = 0 THEN <<>>
    ELSE IF Len(l) = 1 THEN l[1]
    ELSE l[1] \o sep \o Join(sep, Tail(l))

\* s.replace('Z', '+00:00'): every occurrence is replaced
RECURSIVE ReplaceZ(_)
ReplaceZ(s) ==
    IF Len(s) = 0 THEN <<>>
    ELSE (IF s[1] = "Z" THEN <<"+","0","0",":","0","0">> ELSE <<s[1]>>)
         \o ReplaceZ(Tail(s))

DigitVal(c) == (CHOOSE i \in 1..10 : Digits[i] = c) - 1

AllDigits(s) == \A i \in 1..Len(s) : IsDigit(s[i])

\* int(s) of a string of decimal digits
RECURSIVE DigitsToInt(_)
DigitsToInt(s) ==
    IF Len(s) = 0 THEN 0
    ELSE DigitsToInt(SubSeq(s, 1, Len(s) - 1)) * 10 + DigitVal(s[Len(s)])

\* str(n) for n >= 0
RECURSIVE NatToStr(_)
NatToStr(n) ==
    IF n < 10 THEN <<Digits[n + 1]>>
    ELSE NatToStr(n \div 10) \o <<Digits[(n % 10) + 1]>>

\* f"{n:02d}": zero-padded to a width of two, the sign counting in the width
Format02d(n) ==
    IF n >= 0
    THEN (IF n < 10 THEN <<"0">> ELSE <<>>) \o NatToStr(n)
    ELSE <<"-">> \o NatToStr(0 - n)

s_unknown == <<"u","n","k","n","o","w","n">>
s_Unknown == <<"U","n","k","n","o","w","n">>
s_none    == <<"n","o","n","e">>
s_empty   == <<>>

-----------------------------------------------------------------------------
(* Python values held in dictionaries: None, a str or an int. A dictionary  *)
(* built by the program is a function from its keys to such values; a JSON  *)
(* object of the API is a record whose field holds Missing when the object  *)
(* has no such key.                                                         *)

Missing == [k |-> "missing", s |-> <<>>, n |-> 0]
None    == [k |-> "None", s |-> <<>>, n |-> 0]
Str(s)  == [k |-> "str", s |-> s, n |-> 0]
IntVal(n) == [k |-> "int", s |-> <<>>, n |-> n]

\* d.get(key) with no default: a missing key reads as None
Get(v) == IF v = Missing THEN None ELSE v
\* d.get(key, default)
GetOr(v, default) == IF v = Missing THEN default ELSE v
\* truth value of None or a str
Truthy(v) == v.k = "str" /\ Len(v.s) > 0

-----------------------------------------------------------------------------
(* datetime.fromisoformat, on the forms                                     *)
(*   YYYY-MM-DD                                                             *)
(*   YYYY-MM-DD?HH:MM:SS[.fff|.ffffff][(+|-)HH:MM]                          *)
(* which every CPython from 3.7 on parses alike; any other text the model   *)
(* feeds it is text that CPython rejects with ValueError.                   *)

IsLeap(y) == (y % 4 = 0 /\ y % 100 # 0) \/ y % 400 = 0
DaysInMonth(y, m) ==
    IF m = 2 THEN (IF IsLeap(y) THEN 29 ELSE 28)
    ELSE IF m \in {4, 6, 9, 11} THEN 30 ELSE 31

\* proleptic Gregorian day number (date.toordinal up to a constant)
DaysFromCivil(y, m, d) ==
    LET yy  == IF m <= 2 THEN y - 1 ELSE y
        era == yy \div 400
        yoe == yy - era * 400
        mp  == IF m > 2 THEN m - 3 ELSE m + 9
        doy == (153 * mp + 2) \div 5 + d - 1
        doe == yoe * 365 + yoe \div 4 - yoe \div 100 + doy
    IN  era * 146097 + doe

ParseFailure == [ok |-> FALSE, aware |-> FALSE, day |-> 0, sec |-> 0, us |-> 0]

ValidDate(s) ==
    /\ Len(s) >= 10
    /\ AllDigits(SubSeq(s, 1, 4)) /\ s[5] = "-"
    /\ AllDigits(SubSeq(s, 6, 7)) /\ s[8] = "-"
    /\ AllDigits(SubSeq(s, 9, 10))
    /\ LET y == DigitsToInt(SubSeq(s, 1, 4))
           m == DigitsToInt(SubSeq(s, 6, 7))
           d == DigitsToInt(SubSeq(s, 9, 10))
       IN  y >= 1 /\ m \in 1..12 /\ d >= 1 /\ d <= DaysInMonth(y, m)

ValidClock(t) ==
    /\ Len(t) = 8
    /\ AllDigits(SubSeq(t, 1, 2)) /\ t[3] = ":"
    /\ AllDigits(SubSeq(t, 4, 5)) /\ t[6] = ":"
    /\ AllDigits(SubSeq(t, 7, 8))
    /\ DigitsToInt(SubSeq(t, 1, 2)) < 24
    /\ DigitsToInt(SubSeq(t, 4, 5)) < 60
    /\ DigitsToInt(SubSeq(t, 7, 8)) < 60

\* the text after the seconds: fraction, then UTC offset
FractionLen(r) ==
    IF Len(r) >= 1 /\ r[1] = "."
    THEN (IF Len(r) >= 7 /\ AllDigits(SubSeq(r, 2, 7)) THEN 7
          ELSE IF Len(r) >= 4 /\ AllDigits(SubSeq(r, 2, 4))
                  /\ (Len(r) = 4 \/ ~IsDigit(r[5])) THEN 4
          ELSE -1)
    ELSE 0

ValidOffset(o) ==
    /\ Len(o) = 6
    /\ o[1] \in {"+", "-"}
    /\ AllDigits(SubSeq(o, 2, 3)) /\ o[4] = ":" /\ AllDigits(SubSeq(o, 5, 6))
    /\ DigitsToInt(SubSeq(o, 2, 3)) < 24
    /\ DigitsToInt(SubSeq(o, 5, 6)) < 60

OffsetSeconds(o) ==
    (IF o[1] = "-" THEN -1 ELSE 1)
    * (DigitsToInt(SubSeq(o, 2, 3)) * 3600 + DigitsToInt(SubSeq(o, 5, 6)) * 60)

\* The parsed datetime: whether it carries a UTC offset (aware), and, with the
\* offset applied, its day number, second of the day and microsecond.
fromisoformat(s) ==
    IF ~ValidDate(s) THEN ParseFailure
    ELSE
      LET day == DaysFromCivil(DigitsToInt(SubSeq(s, 1, 4)),
                               DigitsToInt(SubSeq(s, 6, 7)),
                               DigitsToInt(SubSeq(s, 9, 10)))
      IN
      IF Len(s) = 10 THEN [ok |-> TRUE, aware |-> FALSE, day |-> day, sec |-> 0, us |-> 0]
      ELSE IF Len(s) < 19 \/ ~ValidClock(SubSeq(s, 12, 19)) THEN ParseFailure
      ELSE
        LET sod  == DigitsToInt(SubSeq(s, 12, 13)) * 3600
                    + DigitsToInt(SubSeq(s, 15, 16)) * 60
                    + DigitsToInt(SubSeq(s, 18, 19))
            rest == SubSeq(s, 20, Len(s))
            fl   == FractionLen(rest)
        IN
        IF fl = -1 THEN ParseFailure
        ELSE
          LET us  == IF fl = 0 THEN 0
                     ELSE IF fl = 4 THEN DigitsToInt(SubSeq(rest, 2, 4)) * 1000
                     ELSE DigitsToInt(SubSeq(rest, 2, 7))
              off == SubSeq(rest, fl + 1, Len(rest))
          IN
          IF Len(off) = 0
          THEN [ok |-> TRUE, aware |-> FALSE, day |-> day, sec |-> sod, us |-> us]
          ELSE IF ~ValidOffset(off) THEN ParseFailure
          ELSE [ok |-> TRUE, aware |-> TRUE, day |-> day,
                sec |-> sod - OffsetSeconds(off), us |-> us]

\* int((end_time - start_time).total_seconds()): int() truncates toward zero
TotalSeconds(start_time, end_time) ==
    LET dsec == (end_time.day - start_time.day) * 86400 + (end_time.sec - start_time.sec)
        dus  == end_time.us - start_time.us
        \* timedelta normal form: 0 <= microseconds < 1000000
        nsec == IF dus < 0 THEN dsec - 1 ELSE dsec
        nus  == IF dus < 0 THEN dus + 1000000 ELSE dus
    IN  IF nsec < 0 /\ nus > 0 THEN nsec + 1 ELSE nsec

\* minutes = total_seconds // 60; seconds = total_seconds % 60;
\* f"{minutes:02d}:{seconds:02d}"
FormatDuration(total_seconds) ==
    Format02d(total_seconds \div 60) \o <<":">> \o Format02d(total_seconds % 60)

-----------------------------------------------------------------------------
(* RunnerUsageAnalyzer._calculate_duration                                  *)

\* Outcome of a call: a returned value, or the exception that left it.
Return(v) == [raised |-> "none", value |-> v]
Raise(e)  == [raised |-> e, value |-> <<>>]

\* The methods the class RunnerUsageAnalyzer defines; self.<name> on any
\* other name raises AttributeError.
AnalyzerMethods ==
    {"__init__", "setup_logging", "make_api_request", "get_repositories",
     "get_workflow_runs", "get_jobs_for_run", "analyze_runner_usage",
     "_calculate_duration", "_categorize_runner", "_get_cost_category",
     "_group_results"}

_calculate_duration(job) ==
    LET started_at   == Get(job.started_at)
        completed_at == Get(job.completed_at)
    IN
    IF ~(Truthy(started_at) /\ Truthy(completed_at)) THEN Return(s_unknown)
    ELSE
      LET start_time == fromisoformat(ReplaceZ(started_at.s))
          end_time   == fromisoformat(ReplaceZ(completed_at.s))
      IN
      \* ValueError from either fromisoformat: caught
      IF ~start_time.ok \/ ~end_time.ok THEN Return(s_unknown)
      \* TypeError from subtracting an aware and a naive datetime: caught
      ELSE IF start_time.aware # end_time.aware THEN Return(s_unknown)
      \* self._parse_iso_datetime(started_at): AttributeError is not among
      \* the exceptions the handler catches
      ELSE IF "_parse_iso_datetime" \notin AnalyzerMethods THEN Raise("AttributeError")
      ELSE Return(FormatDuration(TotalSeconds(start_time, end_time)))

-----------------------------------------------------------------------------
(* String literals of the source                                            *)

\* the label fragments and category names of _categorize_runner and _get_cost_category
cls ==
    [self_hosted |-> <<"s","e","l","f","-","h","o","s","t","e","d">>,
     ubuntu_latest |-> <<"u","b","u","n","t","u","-","l","a","t","e","s","t">>,
     windows_latest |-> <<"w","i","n","d","o","w","s","-","l","a","t","e","s","t">>,
     macos_latest |-> <<"m","a","c","o","s","-","l","a","t","e","s","t">>,
     ubuntu |-> <<"u","b","u","n","t","u">>,
     windows |-> <<"w","i","n","d","o","w","s">>,
     macos |-> <<"m","a","c","o","s">>,
     linux |-> <<"l","i","n","u","x">>,
     large |-> <<"l","a","r","g","e">>,
     xl |-> <<"x","l">>,
     xxl |-> <<"x","x","l">>,
     core4 |-> <<"4","-","c","o","r","e">>,
     core8 |-> <<"8","-","c","o","r","e">>,
     core16 |-> <<"1","6","-","c","o","r","e">>,
     Self_hosted |-> <<"S","e","l","f","-","h","o","s","t","e","d">>,
     GitHub_hosted |-> <<"G","i","t","H","u","b","-","h","o","s","t","e","d">>,
     Ubuntu |-> <<"U","b","u","n","t","u">>,
     Windows |-> <<"W","i","n","d","o","w","s">>,
     macOS |-> <<"m","a","c","O","S">>,
     Linux |-> <<"L","i","n","u","x">>,
     Self_hosted_Custom_Cost |-> <<"S","e","l","f","-","h","o","s","t","e","d"," ","(","C","u","s","t","o","m"," ","C","o","s","t",")">>,
     Large_Instance |-> <<"L","a","r","g","e"," ","I","n","s","t","a","n","c","e">>,
     Standard_GitHub_hosted |-> <<"S","t","a","n","d","a","r","d"," ","G","i","t","H","u","b","-","h","o","s","t","e","d">>,
     Standard |-> <<"S","t","a","n","d","a","r","d">>]

\* the grouping fields _group_results names, and the two statuses it counts
grp ==
    [repo |-> <<"r","e","p","o">>,
     label |-> <<"l","a","b","e","l">>,
     status |-> <<"s","t","a","t","u","s">>,
     workflow |-> <<"w","o","r","k","f","l","o","w">>,
     branch |-> <<"b","r","a","n","c","h">>,
     runner_type |-> <<"r","u","n","n","e","r","_","t","y","p","e">>,
     cost_category |-> <<"c","o","s","t","_","c","a","t","e","g","o","r","y">>,
     completed |-> <<"c","o","m","p","l","e","t","e","d">>,
     failure |-> <<"f","a","i","l","u","r","e">>]

\* the keys of a job record
JobKey ==
    [Org |-> <<"O","r","g">>,
     Repo |-> <<"R","e","p","o">>,
     Branch |-> <<"B","r","a","n","c","h">>,
     Workflow_File |-> <<"W","o","r","k","f","l","o","w"," ","F","i","l","e">>,
     Workflow_Name |-> <<"W","o","r","k","f","l","o","w"," ","N","a","m","e">>,
     Runner_Labels |-> <<"R","u","n","n","e","r"," ","L","a","b","e","l","s">>,
     Runner_Type |-> <<"R","u","n","n","e","r"," ","T","y","p","e">>,
     Cost_Category |-> <<"C","o","s","t"," ","C","a","t","e","g","o","r","y">>,
     Job_Name |-> <<"J","o","b"," ","N","a","m","e">>,
     Job_Status |-> <<"J","o","b"," ","S","t","a","t","u","s">>,
     Run_Date |-> <<"R","u","n"," ","D","a","t","e">>,
     Completed_Date |-> <<"C","o","m","p","l","e","t","e","d"," ","D","a","t","e">>,
     Duration |-> <<"D","u","r","a","t","i","o","n">>,
     Run_ID |-> <<"R","u","n"," ","I","D">>,
     Job_ID |-> <<"J","o","b"," ","I","D">>,
     Conclusion |-> <<"C","o","n","c","l","u","s","i","o","n">>]

\* the keys of a group summary
SummaryKey ==
    [Group |-> <<"G","r","o","u","p">>,
     Group_Type |-> <<"G","r","o","u","p"," ","T","y","p","e">>,
     Total_Jobs |-> <<"T","o","t","a","l"," ","J","o","b","s">>,
     Successful_Jobs |-> <<"S","u","c","c","e","s","s","f","u","l"," ","J","o","b","s">>,
     Failed_Jobs |-> <<"F","a","i","l","e","d"," ","J","o","b","s">>,
     Success_Rate |-> <<"S","u","c","c","e","s","s"," ","R","a","t","e">>,
     Average_Duration |-> <<"A","v","e","r","a","g","e"," ","D","u","r","a","t","i","o","n">>,
     Sample_Repository |-> <<"S","a","m","p","l","e"," ","R","e","p","o","s","i","t","o","r","y">>]

\* d.get(key, default) and key in d, on a dictionary built by the program
DictGet(d, key, default) == IF key \in DOMAIN d THEN d[key] ELSE default
HasKey(d, key) == key \in DOMAIN d

-----------------------------------------------------------------------------
(* RunnerUsageAnalyzer._categorize_runner, _get_cost_category               *)

\* a classification that looks for the operating system before the
\* GitHub-hosted labels
_categorize_runner_os_first(labels) ==
    LET labels_str == Lower(Join(<<" ">>, labels)) IN
    IF Contains(cls.self_hosted, labels_str) THEN cls.Self_hosted
    ELSE IF Contains(cls.ubuntu, labels_str) THEN cls.Ubuntu
    ELSE IF Contains(cls.windows, labels_str) THEN cls.Windows
    ELSE IF Contains(cls.macos, labels_str) THEN cls.macOS
    ELSE IF \E gh_label \in {cls.ubuntu_latest, cls.windows_latest, cls.macos_latest} :
                Contains(gh_label, labels_str) THEN cls.GitHub_hosted
    ELSE IF Contains(cls.linux, labels_str) THEN cls.Linux
    ELSE s_Unknown

\* a runner type that looks for a label that is exactly 'self-hosted'
_categorize_runner_exact_label(labels) ==
    LET labels_str == Lower(Join(<<" ">>, labels)) IN
    IF \E i \in 1..Len(labels) : labels[i] = cls.self_hosted THEN cls.Self_hosted
    ELSE IF \E gh_label \in {cls.ubuntu_latest, cls.windows_latest, cls.macos_latest} :
                Contains(gh_label, labels_str) THEN cls.GitHub_hosted
    ELSE IF Contains(cls.ubuntu, labels_str) THEN cls.Ubuntu
    ELSE IF Contains(cls.windows, labels_str) THEN cls.Windows
    ELSE IF Contains(cls.macos, labels_str) THEN cls.macOS
    ELSE IF Contains(cls.linux, labels_str) THEN cls.Linux
    ELSE s_Unknown

_categorize_runner(labels) ==
    LET labels_str == Lower(Join(<<" ">>, labels)) IN
    IF Contains(cls.self_hosted, labels_str) THEN cls.Self_hosted
    ELSE IF \E gh_label \in {cls.ubuntu_latest, cls.windows_latest, cls.macos_latest} :
                Contains(gh_label, labels_str) THEN cls.GitHub_hosted
    ELSE IF Contains(cls.ubuntu, labels_str) THEN cls.Ubuntu
    ELSE IF Contains(cls.windows, labels_str) THEN cls.Windows
    ELSE IF Contains(cls.macos, labels_str) THEN cls.macOS
    ELSE IF Contains(cls.linux, labels_str) THEN cls.Linux
    ELSE s_Unknown

\* a cost category that looks for the GitHub-hosted labels before the sizes
_get_cost_category_hosted_first(labels) ==
    LET labels_str == Lower(Join(<<" ">>, labels)) IN
    IF Contains(cls.self_hosted, labels_str) THEN cls.Self_hosted_Custom_Cost
    ELSE IF \E gh_label \in {cls.ubuntu_latest, cls.windows_latest, cls.macos_latest} :
                Contains(gh_label, labels_str) THEN cls.Standard_GitHub_hosted
    ELSE IF \E size \in {cls.large, cls.xl, cls.xxl, cls.core4, cls.core8, cls.core16} :
                Contains(size, labels_str) THEN cls.Large_Instance
    ELSE cls.Standard

_get_cost_category(labels) ==
    LET labels_str == Lower(Join(<<" ">>, labels)) IN
    IF Contains(cls.self_hosted, labels_str) THEN cls.Self_hosted_Custom_Cost
    ELSE IF \E size \in {cls.large, cls.xl, cls.xxl, cls.core4, cls.core8, cls.core16} :
                Contains(size, labels_str) THEN cls.Large_Instance
    ELSE IF \E gh_label \in {cls.ubuntu_latest, cls.windows_latest, cls.macos_latest} :
                Contains(gh_label, labels_str) THEN cls.Standard_GitHub_hosted
    ELSE cls.Standard

-----------------------------------------------------------------------------
(* RunnerUsageAnalyzer._group_results                                       *)

\* s.split(':')
RECURSIVE SplitColon(_)
SplitColon(s) ==
    IF \A i \in 1..Len(s) : s[i] # ":" THEN <<s>>
    ELSE LET i == CHOOSE j \in 1..Len(s) :
                      s[j] = ":" /\ \A h \in 1..(j - 1) : s[h] # ":"
         IN  <<SubSeq(s, 1, i - 1)>> \o SplitColon(SubSeq(s, i + 1, Len(s)))

\* int(t) succeeds on an optional sign followed by decimal digits (of the
\* texts a Duration can hold, no other is accepted by int)
IsIntText(t) ==
    LET body == IF Len(t) > 0 /\ t[1] \in {"+", "-"} THEN Tail(t) ELSE t
    IN  Len(body) > 0 /\ AllDigits(body)
ParseInt(t) ==
    IF t[1] = "-" THEN 0 - DigitsToInt(Tail(t))
    ELSE IF t[1] = "+" THEN DigitsToInt(Tail(t))
    ELSE DigitsToInt(t)

\* the key a record is filed under
GroupKey(result, group_by) ==
    IF group_by = grp.label THEN DictGet(result, JobKey.Runner_Labels, Str(s_Unknown))
    ELSE IF group_by = grp.status THEN DictGet(result, JobKey.Job_Status, Str(s_Unknown))
    ELSE IF group_by = grp.workflow THEN DictGet(result, JobKey.Workflow_Name, Str(s_Unknown))
    ELSE IF group_by = grp.branch THEN DictGet(result, JobKey.Branch, Str(s_Unknown))
    ELSE IF group_by = grp.runner_type THEN DictGet(result, JobKey.Runner_Type, Str(s_Unknown))
    ELSE IF group_by = grp.cost_category THEN DictGet(result, JobKey.Cost_Category, Str(s_Unknown))
    ELSE DictGet(result, Title(group_by), Str(s_Unknown))

\* a grouping that opens a new group whenever the key differs from the key
\* of the last group
GroupedAppend_last_only(grouped, key, result) ==
    IF Len(grouped) > 0 /\ grouped[Len(grouped)].key = key
    THEN [grouped EXCEPT ![Len(grouped)].items = Append(@, result)]
    ELSE Append(grouped, [key |-> key, items |-> <<result>>])

\* a grouping that puts a new key before the keys already present
GroupedAppend_new_first(grouped, key, result) ==
    IF \E i \in 1..Len(grouped) : grouped[i].key = key
    THEN [i \in 1..Len(grouped) |->
            IF grouped[i].key = key
            THEN [grouped[i] EXCEPT !.items = Append(@, result)]
            ELSE grouped[i]]
    ELSE <<[key |-> key, items |-> <<result>>]>> \o grouped

\* grouped[key].append(result) on a defaultdict(list): a new key is inserted
\* after the keys already present
GroupedAppend(grouped, key, result) ==
    IF \E i \in 1..Len(grouped) : grouped[i].key = key
    THEN [i \in 1..Len(grouped) |->
            IF grouped[i].key = key
            THEN [grouped[i] EXCEPT !.items = Append(@, result)]
            ELSE grouped[i]]
    ELSE Append(grouped, [key |-> key, items |-> <<result>>])

\* the loop `for result in results`
RECURSIVE GroupLoop(_, _, _)
GroupLoop(results_, group_by, grouped) ==
    IF Len(results_) = 0 THEN grouped
    ELSE GroupLoop(Tail(results_), group_by,
                   GroupedAppend(grouped, GroupKey(results_[1], group_by), results_[1]))

\* a list `durations` in which an 'unknown' Duration counts as zero seconds
RECURSIVE GroupDurations_unknown_as_zero(_)
GroupDurations_unknown_as_zero(group_items) ==
    IF Len(group_items) = 0 THEN <<>>
    ELSE
      LET duration_str == DictGet(group_items[1], JobKey.Duration, Str(<<"0","0",":","0","0">>))
          parts == SplitColon(duration_str.s)
          here ==
            IF Contains(<<":">>, duration_str.s)
               /\ Len(parts) = 2 /\ IsIntText(parts[1]) /\ IsIntText(parts[2])
            THEN <<ParseInt(parts[1]) * 60 + ParseInt(parts[2])>>
            ELSE <<0>>
      IN  here \o GroupDurations_unknown_as_zero(Tail(group_items))

\* the list `durations` of one group
RECURSIVE GroupDurations(_)
GroupDurations(group_items) ==
    IF Len(group_items) = 0 THEN <<>>
    ELSE
      LET duration_str == DictGet(group_items[1], JobKey.Duration, Str(<<"0","0",":","0","0">>))
          parts == SplitColon(duration_str.s)
          here ==
            IF duration_str # Str(s_unknown) /\ Contains(<<":">>, duration_str.s)
               /\ Len(parts) = 2 /\ IsIntText(parts[1]) /\ IsIntText(parts[2])
            THEN <<ParseInt(parts[1]) * 60 + ParseInt(parts[2])>>
            ELSE <<>>
      IN  here \o GroupDurations(Tail(group_items))

RECURSIVE SumSeq(_)
SumSeq(q) == IF Len(q) = 0 THEN 0 ELSE q[1] + SumSeq(Tail(q))

\* avg_seconds = sum / len; f"{int(avg_seconds // 60):02d}:{int(avg_seconds % 60):02d}"
AverageDuration(durations) ==
    IF Len(durations) = 0 THEN s_unknown
    ELSE LET whole == SumSeq(durations) \div Len(durations)
         IN  Format02d(whole \div 60) \o <<":">> \o Format02d(whole % 60)

\* a Success Rate that cuts the percentage after the first decimal
SuccessRate_truncating(successful_jobs, total_jobs) ==
    IF total_jobs > 0
    THEN LET q == (successful_jobs * 1000) \div total_jobs
         IN  NatToStr(q \div 10) \o <<".">> \o NatToStr(q % 10) \o <<"%">>
    ELSE <<"0", "%">>

\* f"{(successful_jobs/total_jobs*100):.1f}%": one decimal, ties to even
SuccessRate(successful_jobs, total_jobs) ==
    IF total_jobs > 0
    THEN LET q == (successful_jobs * 1000) \div total_jobs
             r == (successful_jobs * 1000) % total_jobs
             tenths == IF 2 * r > total_jobs \/ (2 * r = total_jobs /\ q % 2 = 1)
                       THEN q + 1 ELSE q
         IN  NatToStr(tenths \div 10) \o <<".">> \o NatToStr(tenths % 10) \o <<"%">>
    ELSE <<"0", "%">>

\* a sample taken from the record that entered the group last
SampleRepository_of_last(group_items) ==
    IF Len(group_items) > 0
    THEN DictGet(group_items[Len(group_items)], JobKey.Repo, Str(s_Unknown))
    ELSE Str(s_Unknown)

\* group_items[0].get('Repo', 'Unknown') if group_items else 'Unknown'
SampleRepository(group_items) ==
    IF Len(group_items) > 0
    THEN DictGet(group_items[1], JobKey.Repo, Str(s_Unknown))
    ELSE Str(s_Unknown)

GroupSummary(group_key, group_items, group_by) ==
    LET total_jobs == Len(group_items)
        successful_jobs ==
            Cardinality({i \in 1..Len(group_items) :
                DictGet(group_items[i], JobKey.Job_Status, None) = Str(grp.completed)})
        failed_jobs ==
            Cardinality({i \in 1..Len(group_items) :
                DictGet(group_items[i], JobKey.Job_Status, None) = Str(grp.failure)})
    IN  (SummaryKey.Group :> group_key)
        @@ (SummaryKey.Group_Type :> Str(Title(group_by)))
        @@ (SummaryKey.Total_Jobs :> IntVal(total_jobs))
        @@ (SummaryKey.Successful_Jobs :> IntVal(successful_jobs))
        @@ (SummaryKey.Failed_Jobs :> IntVal(failed_jobs))
        @@ (SummaryKey.Success_Rate :> Str(SuccessRate(successful_jobs, total_jobs)))
        @@ (SummaryKey.Average_Duration :> Str(AverageDuration(GroupDurations(group_items))))
        @@ (SummaryKey.Sample_Repository :> SampleRepository(group_items))

_group_results(results_, group_by) ==
    IF Len(results_) = 0 THEN results_
    ELSE LET grouped == GroupLoop(results_, group_by, <<>>)
         IN  [i \in 1..Len(grouped) |->
                GroupSummary(grouped[i].key, grouped[i].items, group_by)]

-----------------------------------------------------------------------------
(* The GitHub API: the data it holds. Only the keys the program reads are   *)
(* kept; of the keys it copies into a record, html_url and the repository's *)
(* size, language and visibility are left out.                              *)

\* texts the API returns: names, branches, labels, statuses, timestamps
Payload ==
    [API |-> <<"A","P","I">>,
     web |-> <<"w","e","b">>,
     docs |-> <<"d","o","c","s">>,
     main |-> <<"m","a","i","n">>,
     dev |-> <<"d","e","v">>,
     CI |-> <<"C","I">>,
     Release |-> <<"R","e","l","e","a","s","e">>,
     ci_yml |-> <<"c","i",".","y","m","l">>,
     build |-> <<"b","u","i","l","d">>,
     test |-> <<"t","e","s","t">>,
     deploy |-> <<"d","e","p","l","o","y">>,
     gpu |-> <<"g","p","u">>,
     in_progress |-> <<"i","n","_","p","r","o","g","r","e","s","s">>,
     success |-> <<"s","u","c","c","e","s","s">>,
     soon |-> <<"s","o","o","n">>,
     t_10_00_00Z |-> <<"2","0","2","4","-","0","1","-","0","1","T","1","0",":","0","0",":","0","0","Z">>,
     t_10_02_38Z |-> <<"2","0","2","4","-","0","1","-","0","1","T","1","0",":","0","2",":","3","8","Z">>,
     t_12_05_00Z |-> <<"2","0","2","4","-","0","1","-","0","1","T","1","2",":","0","5",":","0","0","Z">>,
     t_09_59_59Z |-> <<"2","0","2","4","-","0","1","-","0","1","T","0","9",":","5","9",":","5","9","Z">>,
     t_10_00_00 |-> <<"2","0","2","4","-","0","1","-","0","1","T","1","0",":","0","0",":","0","0">>,
     t_10_00_01_500 |-> <<"2","0","2","4","-","0","1","-","0","1","T","1","0",":","0","0",":","0","1",".","5","0","0","+","0","0",":","0","0">>,
     t_next_day |-> <<"2","0","2","4","-","0","1","-","0","2","T","0","0",":","0","0",":","1","0","+","0","2",":","0","0">>,
     t_month_13 |-> <<"2","0","2","4","-","1","3","-","0","1","T","1","0",":","0","0",":","0","0","Z">>]

\* texts the environment variables hold
Setting ==
    [tok |-> <<"t","o","k">>,
     acme |-> <<"a","c","m","e">>,
     api |-> <<"a","p","i">>,
     COMPLETED |-> <<"C","O","M","P","L","E","T","E","D">>,
     failure |-> <<"f","a","i","l","u","r","e">>,
     NONE |-> <<"N","O","N","E">>,
     repo |-> <<"r","e","p","o">>,
     status |-> <<"s","t","a","t","u","s">>,
     self_hosted |-> <<"s","e","l","f","-","h","o","s","t","e","d">>,
     Self_Hosted |-> <<"S","e","l","f","-","H","o","s","t","e","d">>,
     summary_md |-> <<"s","u","m","m","a","r","y",".","m","d">>,
     soon |-> <<"s","o","o","n">>,
     owner |-> <<"o","w","n","e","r">>,
     conclusion |-> <<"c","o","n","c","l","u","s","i","o","n">>,
     org |-> <<"o","r","g">>]

\* Bounds of the model
MaxRepos    == 2    \* repositories in the organization
MaxFailures == 2    \* API requests that fail in one execution

\* The page ceiling of get_repositories
PageLimit == 100

RepoAPI == [name |-> Payload.API, default_branch |-> Payload.main]
RepoWeb == [name |-> Payload.web, default_branch |-> Payload.dev]
RepoDocs == [name |-> Payload.docs, default_branch |-> Payload.main]

Run1 == [id |-> 1, name |-> Payload.CI, path |-> Str(Payload.ci_yml)]
Run2 == [id |-> 2, name |-> Payload.Release, path |-> Missing]
Run3 == [id |-> 3, name |-> Payload.CI, path |-> Str(Payload.ci_yml)]
Run4 == [id |-> 4, name |-> Payload.CI, path |-> Str(Payload.ci_yml)]

UbuntuJob(id, name, started_at, completed_at) ==
    [id |-> id, name |-> name, labels |-> <<cls.ubuntu_latest>>,
     status |-> grp.completed, conclusion |-> Str(Payload.success),
     started_at |-> started_at, completed_at |-> completed_at]

SelfHostedJob(id, started_at, completed_at) ==
    [id |-> id, name |-> Payload.deploy, labels |-> <<cls.self_hosted, Payload.gpu>>,
     status |-> grp.failure, conclusion |-> Str(grp.failure),
     started_at |-> started_at, completed_at |-> completed_at]

CompletedSelfHostedJob(id) ==
    [id |-> id, name |-> Payload.build, labels |-> <<cls.self_hosted>>,
     status |-> grp.completed, conclusion |-> Str(Payload.success),
     started_at |-> Missing, completed_at |-> Missing]

FailedUbuntuJob(id, started_at) ==
    [id |-> id, name |-> Payload.test, labels |-> <<cls.ubuntu_latest>>,
     status |-> grp.failure, conclusion |-> Str(grp.failure),
     started_at |-> started_at, completed_at |-> Missing]

RunningJob(id, started_at) ==
    [id |-> id, name |-> Payload.test, labels |-> <<cls.ubuntu_latest>>,
     status |-> Payload.in_progress, conclusion |-> None,
     started_at |-> started_at, completed_at |-> None]

NoJobs == [r \in 1..4 |-> <<>>]
NoRuns == [n \in {Payload.API, Payload.web, Payload.docs} |-> <<>>]

\* an organization without repositories
WorldEmpty == [pages |-> <<>>, runs |-> NoRuns, jobs |-> NoJobs]

\* two repositories, one per page; three ubuntu-latest jobs, all completed, in
\* the first and one self-hosted failure in the second; no job has both of
\* its timestamps
WorldScenario ==
    [pages |-> << <<RepoAPI>>, <<RepoWeb>> >>,
     runs  |-> [NoRuns EXCEPT ![Payload.API] = <<Run1>>, ![Payload.web] = <<Run3>>],
     jobs  |-> [NoJobs EXCEPT
                  ![1] = << UbuntuJob(11, Payload.build, Str(Payload.t_10_00_00Z), None),
                            UbuntuJob(12, Payload.test, Missing, Missing),
                            UbuntuJob(13, Payload.deploy, Str(s_empty), Str(Payload.t_10_02_38Z)) >>,
                  ![3] = << SelfHostedJob(31, Str(Payload.t_10_00_00Z), Str(Payload.soon)) >>]]

\* two repositories on one page; the first has two runs; the self-hosted job
\* of run 2 has two well-formed timestamps (as has the first job of run 1, but
\* one with a UTC offset and one without); the first job of run 3 is still
\* running and its started_at is null
WorldTimed ==
    [pages |-> << <<RepoAPI, RepoWeb>> >>,
     runs  |-> [NoRuns EXCEPT ![Payload.API] = <<Run1, Run2>>, ![Payload.web] = <<Run3>>],
     jobs  |-> [NoJobs EXCEPT
                  ![1] = << UbuntuJob(11, Payload.build, Str(Payload.t_10_00_00Z), Str(Payload.t_10_00_00)),
                            SelfHostedJob(12, Str(Payload.t_10_00_00Z), None),
                            FailedUbuntuJob(13, Str(Payload.t_10_02_38Z)),
                            CompletedSelfHostedJob(14) >>,
                  ![2] = << UbuntuJob(22, Payload.test, Str(Payload.soon), Str(Payload.t_10_02_38Z)),
                            SelfHostedJob(21, Str(Payload.t_10_00_00Z), Str(Payload.t_10_02_38Z)) >>,
                  ![3] = << RunningJob(31, None),
                            UbuntuJob(32, Payload.build, Str(Payload.t_12_05_00Z), None) >>]]

\* three repositories on two pages
WorldThree ==
    [pages |-> << <<RepoAPI, RepoWeb>>, <<RepoDocs>> >>,
     runs  |-> [NoRuns EXCEPT ![Payload.API] = <<Run1>>, ![Payload.web] = <<>>, ![Payload.docs] = <<Run4>>],
     jobs  |-> [NoJobs EXCEPT
                  ![1] = << UbuntuJob(11, Payload.build, Str(Payload.t_10_00_00Z), None) >>,
                  ![4] = << SelfHostedJob(41, Missing, Missing),
                            RunningJob(42, Str(Payload.t_10_00_00Z)) >>]]

RECURSIVE Flatten(_)
Flatten(pages) == IF Len(pages) = 0 THEN <<>> ELSE pages[1] \o Flatten(Tail(pages))

Worlds ==
    {w \in {WorldEmpty, WorldScenario, WorldTimed, WorldThree} :
        Len(Flatten(w.pages)) <= MaxRepos}

\* The environments main() can be started in
Environments ==
    [GITHUB_TOKEN        : {Missing, Str(s_empty), Str(Setting.tok)},
     ORG_NAME            : {Missing, Str(Setting.acme)},
     TARGET_RUNNER_LABEL : {Missing, Str(s_empty), Str(Setting.self_hosted), Str(Setting.Self_Hosted)},
     DAYS_BACK           : {Missing, Str(Setting.soon)},
     GROUP_BY            : {Missing, Str(Setting.NONE), Str(Setting.repo), Str(Setting.status)},
     STATUS_FILTER       : {Missing, Str(Setting.COMPLETED), Str(Setting.failure)},
     REPO_FILTER         : {Missing, Str(Setting.api)},
     GITHUB_STEP_SUMMARY : {Missing, Str(Setting.summary_md)}]

-----------------------------------------------------------------------------
(* main(): configuration                                                    *)

\* os.environ.get(name) / os.environ.get(name, default)
\* a main that falls back on a built-in token
github_token_with_default == GetOr(env.GITHUB_TOKEN, Str(Setting.tok))
github_token  == Get(env.GITHUB_TOKEN)
org_name      == Get(env.ORG_NAME)
target_label  == Get(env.TARGET_RUNNER_LABEL)
status_filter == Get(env.STATUS_FILTER)
repo_filter   == Get(env.REPO_FILTER)
\* a main that falls back on the default group_by of analyze_runner_usage
group_by_defaulting_to_repo == Lower(GetOr(env.GROUP_BY, Str(grp.repo)).s)
group_by      == Lower(GetOr(env.GROUP_BY, Str(s_none)).s)

\* int(os.environ.get('DAYS_BACK', '30')) raises ValueError on a text that is
\* not an integer
DaysBackRaises == env.DAYS_BACK # Missing /\ ~IsIntText(env.DAYS_BACK.s)

-----------------------------------------------------------------------------
(* RunnerUsageAnalyzer.make_api_request and the three listings              *)

\* What requests.get, raise_for_status and response.json() can do with one
\* request: deliver the payload, or raise a connection error or timeout, an
\* HTTPError for a status of 400 and above, or the JSONDecodeError of a body
\* that is no JSON. All three are requests.exceptions.RequestException.
RequestException == {"ConnectionError", "HTTPError", "JSONDecodeError"}
Responses == {"ok"} \cup RequestException

Request(kind, repo, branch, n, response) ==
    [kind |-> kind, repo |-> repo, branch |-> branch, n |-> n,
     ok |-> (response = "ok"), response |-> response]

Failures == Cardinality({i \in 1..Len(log) : ~log[i].ok})

\* the number of failing requests of one execution is bounded
MayFail(response) == response = "ok" \/ Failures < MaxFailures

\* the page the API returns for ?page=p
RepoPage(p) == IF p <= Len(api.pages) THEN api.pages[p] ELSE <<>>

\* a make_api_request that hides a failed request behind an empty payload
make_api_request_swallowing(response, payload) ==
    IF response = "ok" THEN Return(payload) ELSE Return(<<>>)

\* lines 61-74: the payload, or GitHubAPIError for a RequestException
make_api_request(response, payload) ==
    IF response = "ok" THEN Return(payload)
    ELSE IF response \in RequestException THEN Raise("GitHubAPIError")
    ELSE Raise(response)

\* lines 130-137: GitHubAPIError is caught and an empty list returned
get_workflow_runs(response, repo) ==
    LET data == make_api_request(response, api.runs[repo.name])
    IN  IF data.raised = "GitHubAPIError" THEN Return(<<>>) ELSE data

\* a get_jobs_for_run without its try/except
get_jobs_for_run_uncaught(response, run) ==
    make_api_request(response, api.jobs[run.id])

\* lines 152-157: GitHubAPIError is caught and an empty list returned
get_jobs_for_run(response, run) ==
    LET data == make_api_request(response, api.jobs[run.id])
    IN  IF data.raised = "GitHubAPIError" THEN Return(<<>>) ELSE data

-----------------------------------------------------------------------------
(* RunnerUsageAnalyzer.analyze_runner_usage                                 *)

\* line 219: the job is skipped by the status filter
StatusFilterSkips(status_filter_, job_status) ==
    Truthy(status_filter_) /\ Lower(status_filter_.s) # Lower(job_status)

\* a label filter that ignores case
LabelFilterPasses_ignoring_case(target_label_, job_labels) ==
    target_label_ = None
    \/ \E i \in 1..Len(job_labels) : Lower(job_labels[i]) = Lower(target_label_.s)

\* line 223: the job passes the label filter
LabelFilterPasses(target_label_, job_labels) ==
    target_label_ = None \/ InList(target_label_.s, job_labels)

\* lines 228-249: the record of a retained job
JobRecord(org, repo, run, job, duration) ==
    (JobKey.Org :> Str(org))
    @@ (JobKey.Repo :> Str(repo.name))
    @@ (JobKey.Branch :> Str(repo.default_branch))
    @@ (JobKey.Workflow_File :> GetOr(run.path, Str(s_empty)))
    @@ (JobKey.Workflow_Name :> Str(run.name))
    @@ (JobKey.Runner_Labels :>
          Str(IF Len(job.labels) > 0 THEN Join(<<",", " ">>, job.labels) ELSE s_unknown))
    @@ (JobKey.Runner_Type :> Str(_categorize_runner(job.labels)))
    @@ (JobKey.Cost_Category :> Str(_get_cost_category(job.labels)))
    @@ (JobKey.Job_Name :> Str(job.name))
    @@ (JobKey.Job_Status :> Str(job.status))
    @@ (JobKey.Run_Date :> GetOr(job.started_at, Str(s_empty)))
    @@ (JobKey.Completed_Date :> GetOr(job.completed_at, Str(s_empty)))
    @@ (JobKey.Duration :> Str(duration))
    @@ (JobKey.Run_ID :> IntVal(run.id))
    @@ (JobKey.Job_ID :> IntVal(job.id))
    @@ (JobKey.Conclusion :> GetOr(job.conclusion, Str(s_unknown)))

\* a job loop that inserts each record at the front of the list
RECURSIVE ProcessJobs_inserting_first(_, _, _, _)
ProcessJobs_inserting_first(jobs, repo, run, acc) ==
    IF Len(jobs) = 0 THEN [results |-> acc, raised |-> "none"]
    ELSE
      LET job == jobs[1] IN
      IF StatusFilterSkips(status_filter, job.status)
      THEN ProcessJobs_inserting_first(Tail(jobs), repo, run, acc)
      ELSE IF LabelFilterPasses(target_label, job.labels)
      THEN LET d == _calculate_duration(job) IN
           IF d.raised # "none" THEN [results |-> acc, raised |-> d.raised]
           ELSE ProcessJobs_inserting_first(Tail(jobs), repo, run,
                    <<JobRecord(org_name.s, repo, run, job, d.value)>> \o acc)
      ELSE ProcessJobs_inserting_first(Tail(jobs), repo, run, acc)

\* lines 213-249: the loop over the jobs of one run; an exception leaves the
\* loop with the records appended so far
RECURSIVE ProcessJobs(_, _, _, _)
ProcessJobs(jobs, repo, run, acc) ==
    IF Len(jobs) = 0 THEN [results |-> acc, raised |-> "none"]
    ELSE
      LET job == jobs[1] IN
      IF StatusFilterSkips(status_filter, job.status)
      THEN ProcessJobs(Tail(jobs), repo, run, acc)
      ELSE IF LabelFilterPasses(target_label, job.labels)
      THEN LET d == _calculate_duration(job) IN
           IF d.raised # "none" THEN [results |-> acc, raised |-> d.raised]
           ELSE ProcessJobs(Tail(jobs), repo, run,
                            Append(acc, JobRecord(org_name.s, repo, run, job, d.value)))
      ELSE ProcessJobs(Tail(jobs), repo, run, acc)

\* lines 193-195: the repository filter
\* a repository filter that compares the letters as they are
RECURSIVE FilterRepos_case_sensitive(_, _)
FilterRepos_case_sensitive(rs, repo_filter_) ==
    IF Len(rs) = 0 THEN <<>>
    ELSE (IF Contains(repo_filter_, rs[1].name) THEN <<rs[1]>> ELSE <<>>)
         \o FilterRepos_case_sensitive(Tail(rs), repo_filter_)

RECURSIVE FilterRepos(_, _)
FilterRepos(rs, repo_filter_) ==
    IF Len(rs) = 0 THEN <<>>
    ELSE (IF Contains(Lower(repo_filter_), Lower(rs[1].name)) THEN <<rs[1]>> ELSE <<>>)
         \o FilterRepos(Tail(rs), repo_filter_)

SurvivingRepos(rs) ==
    IF Truthy(repo_filter) THEN FilterRepos(rs, repo_filter.s) ELSE rs

-----------------------------------------------------------------------------
(* Actions                                                                  *)

Init ==
    /\ pc = "main"
    /\ env \in Environments
    /\ api \in Worlds
    /\ page = 0
    /\ repos = <<>>
    /\ repoIdx = 0
    /\ runs = <<>>
    /\ runIdx = 0
    /\ results = <<>>
    /\ usage_data = <<>>
    /\ log = <<>>
    /\ files = {}
    /\ exc = "none"
    /\ exitCode = -1
    /\ summary = [made |-> FALSE, jobs |-> 0]
    /\ call = [op |-> "none"]

\* except Exception as e: logging.error(...); sys.exit(1)
Abort(e) ==
    /\ pc' = "exited"
    /\ exc' = e
    /\ exitCode' = 1

\* main, lines 1224-1243: read the environment, validate it, construct the
\* analyzer and the report generator, enter analyze_runner_usage up to the
\* first request of get_repositories
ReadConfiguration ==
    /\ pc = "main"
    /\ IF DaysBackRaises \/ ~Truthy(github_token) \/ ~Truthy(org_name)
       THEN /\ Abort("ValueError")
            /\ UNCHANGED <<page, results>>
       ELSE /\ pc' = "get_repositories"
            /\ page' = 1
            /\ results' = <<>>
            /\ UNCHANGED <<exc, exitCode>>
    /\ UNCHANGED <<env, api, repos, repoIdx, runs, runIdx, usage_data, log,
                   files, summary, call>>

\* nested loops that leave a repository after its first run
LoopPosition_first_run_only(rs, ri, rn, ni) ==
    IF ri > Len(rs) THEN [pc |-> "group", repoIdx |-> ri, runIdx |-> 0]
    ELSE IF ni > Len(rn) \/ ni > 1 THEN
        (IF ri + 1 > Len(rs) THEN [pc |-> "group", repoIdx |-> ri + 1, runIdx |-> 0]
         ELSE [pc |-> "get_workflow_runs", repoIdx |-> ri + 1, runIdx |-> 0])
    ELSE [pc |-> "get_jobs_for_run", repoIdx |-> ri, runIdx |-> ni]

\* where the loops of analyze_runner_usage go next
LoopPosition(rs, ri, rn, ni) ==
    IF ri > Len(rs) THEN [pc |-> "group", repoIdx |-> ri, runIdx |-> 0]
    ELSE IF ni > Len(rn) THEN
        (IF ri + 1 > Len(rs) THEN [pc |-> "group", repoIdx |-> ri + 1, runIdx |-> 0]
         ELSE [pc |-> "get_workflow_runs", repoIdx |-> ri + 1, runIdx |-> 0])
    ELSE [pc |-> "get_jobs_for_run", repoIdx |-> ri, runIdx |-> ni]

\* a loop that only an empty page ends
LastPage_unbounded(data, page_) == Len(data) = 0

\* lines 89-90 and 96-102: the loop ends on an empty page, and after the
\* page that takes the counter past the ceiling
LastPage(data, page_) == Len(data) = 0 \/ page_ + 1 > PageLimit

\* get_repositories, one iteration of `while True` (lines 87-102); when the
\* loop ends, lines 104-105 and analyze_runner_usage lines 190-197
GetRepositoriesPage ==
    /\ pc = "get_repositories"
    /\ \E response \in Responses :
        /\ MayFail(response)
        /\ log' = Append(log, Request("repos", s_empty, s_empty, page, response))
        /\ IF make_api_request(response, RepoPage(page)).raised # "none"
           THEN /\ Abort(make_api_request(response, RepoPage(page)).raised)
                /\ UNCHANGED <<page, repos, repoIdx>>
           ELSE LET data == make_api_request(response, RepoPage(page)).value
                    all  == repos \o data
                IN  IF LastPage(data, page)
                    THEN /\ repos' = SurvivingRepos(all)
                         /\ repoIdx' = 1
                         /\ pc' = IF Len(SurvivingRepos(all)) = 0 THEN "group"
                                  ELSE "get_workflow_runs"
                         /\ page' = IF Len(data) = 0 THEN page ELSE page + 1
                         /\ UNCHANGED <<exc, exitCode>>
                    ELSE /\ repos' = all
                         /\ page' = page + 1
                         /\ UNCHANGED <<pc, repoIdx, exc, exitCode>>
    /\ UNCHANGED <<env, api, runs, runIdx, results, usage_data, files, summary, call>>

\* get_workflow_runs for the current repository (lines 198-204, 120-137)
GetWorkflowRuns ==
    /\ pc = "get_workflow_runs"
    /\ \E response \in Responses :
        /\ MayFail(response)
        /\ LET repo == repos[repoIdx]
               got  == get_workflow_runs(response, repo)
               next == LoopPosition(repos, repoIdx, got.value, 1)
           IN  /\ log' = Append(log, Request("runs", repo.name, repo.default_branch, 0, response))
               /\ IF got.raised # "none"
                  THEN /\ Abort(got.raised)
                       /\ UNCHANGED <<runs, repoIdx, runIdx>>
                  ELSE /\ runs' = got.value
                       /\ pc' = next.pc
                       /\ repoIdx' = next.repoIdx
                       /\ runIdx' = next.runIdx
                       /\ UNCHANGED <<exc, exitCode>>
    /\ UNCHANGED <<env, api, page, repos, results, usage_data, files, summary, call>>

\* get_jobs_for_run for the current run and the loop over its jobs
\* (lines 206-249, 150-157)
GetJobsForRun ==
    /\ pc = "get_jobs_for_run"
    /\ \E response \in Responses :
        /\ MayFail(response)
        /\ LET repo == repos[repoIdx]
               run  == runs[runIdx]
               got  == get_jobs_for_run(response, run)
               out  == IF got.raised # "none"
                       THEN [results |-> results, raised |-> got.raised]
                       ELSE ProcessJobs(got.value, repo, run, results)
               next == LoopPosition(repos, repoIdx, runs, runIdx + 1)
           IN  /\ log' = Append(log, Request("jobs", repo.name, s_empty, run.id, response))
               /\ results' = out.results
               /\ IF out.raised # "none"
                  THEN /\ Abort(out.raised)
                       /\ UNCHANGED <<repoIdx, runIdx>>
                  ELSE /\ pc' = next.pc
                       /\ repoIdx' = next.repoIdx
                       /\ runIdx' = next.runIdx
                       /\ UNCHANGED <<exc, exitCode>>
    /\ UNCHANGED <<env, api, page, repos, runs, usage_data, files, summary, call>>

\* analyze_runner_usage lines 251-260 and the assignment of main line 1243
GroupAndReturn ==
    /\ pc = "group"
    /\ results' = IF group_by # s_none THEN _group_results(results, group_by) ELSE results
    /\ usage_data' = results'
    /\ pc' = "export_to_csv"
    /\ UNCHANGED <<env, api, page, repos, repoIdx, runs, runIdx, log, files,
                   exc, exitCode, summary, call>>

-----------------------------------------------------------------------------
(* ReportGenerator                                                          *)

CsvFile     == "runner_usage_report.csv"
HtmlFile    == "runner_usage_report.html"
SummaryFile == "GITHUB_STEP_SUMMARY"

\* item[key] raises KeyError on a dictionary without the key
LacksKey(data, keys) ==
    \E i \in 1..Len(data) : \E key \in keys : ~HasKey(data[i], key)

\* sorted(...) compares the sort keys with <, which raises TypeError as soon
\* as None is one of two or more keys
SortRaises(keys) ==
    Len(keys) >= 2 /\ \E i \in 1..Len(keys) : keys[i] = None

\* export_to_csv, lines 449-454: the exception csv.DictWriter raises, if any
\* (a row with a key that is not a field name of the first row)
CsvException(data) ==
    IF \E i \in 1..Len(data) : ~(DOMAIN data[i] \subseteq DOMAIN data[1])
    THEN "ValueError" ELSE "none"

\* generate_html_report, lines 475-509: the exception raised before the file
\* is opened, if any
HtmlException(data) ==
    IF HasKey(data[1], SummaryKey.Group)
    THEN \* _generate_labels_chart_html takes len() of every group key
         IF \E i \in 1..Len(data) : DictGet(data[i], SummaryKey.Group, Str(s_Unknown)).k # "str"
         THEN "TypeError" ELSE "none"
    ELSE IF LacksKey(data, {JobKey.Repo, JobKey.Workflow_File, JobKey.Job_Status, JobKey.Runner_Labels})
         THEN "KeyError"
    ELSE IF SortRaises([i \in 1..Len(data) |-> DictGet(data[i], JobKey.Run_Date, Str(s_empty))])
         THEN "TypeError"
    ELSE "none"

\* generate_github_summary, lines 1161-1201: the exception raised while the
\* text is built, if any
SummaryException(data) ==
    IF LacksKey(data, {JobKey.Repo, JobKey.Workflow_File, JobKey.Job_Status, JobKey.Runner_Labels, JobKey.Run_Date})
    THEN "KeyError"
    ELSE IF SortRaises([i \in 1..Len(data) |-> data[i][JobKey.Run_Date]])
    THEN "TypeError"
    ELSE IF LacksKey(data, {JobKey.Workflow_Name, JobKey.Job_Name})
    THEN "KeyError"
    ELSE "none"

\* main line 1247: report_generator.export_to_csv(usage_data)
ExportToCsv ==
    /\ pc = "export_to_csv"
    /\ \E io \in BOOLEAN :
        IF Len(usage_data) = 0
        THEN /\ io
             /\ pc' = "generate_html_report"
             /\ UNCHANGED <<files, exc, exitCode>>
        ELSE IF CsvException(usage_data) # "none"
        THEN /\ io
             /\ Abort(CsvException(usage_data))
             /\ UNCHANGED files
        ELSE IF io
        THEN /\ files' = files \cup {CsvFile}
             /\ pc' = "generate_html_report"
             /\ UNCHANGED <<exc, exitCode>>
        ELSE /\ Abort("OSError")
             /\ UNCHANGED files
    /\ UNCHANGED <<env, api, page, repos, repoIdx, runs, runIdx, results,
                   usage_data, log, summary, call>>

\* main line 1248: report_generator.generate_html_report(usage_data)
GenerateHtmlReport ==
    /\ pc = "generate_html_report"
    /\ \E io \in BOOLEAN :
        IF Len(usage_data) > 0 /\ HtmlException(usage_data) # "none"
        THEN /\ io
             /\ Abort(HtmlException(usage_data))
             /\ UNCHANGED files
        ELSE IF io
        THEN /\ files' = files \cup {HtmlFile}
             /\ pc' = "generate_github_summary"
             /\ UNCHANGED <<exc, exitCode>>
        ELSE /\ Abort("OSError")
             /\ UNCHANGED files
    /\ UNCHANGED <<env, api, page, repos, repoIdx, runs, runIdx, results,
                   usage_data, log, summary, call>>

\* main lines 1249-1259: report_generator.generate_github_summary(usage_data),
\* then the closing messages and the normal end of the process
GenerateGithubSummary ==
    /\ pc = "generate_github_summary"
    /\ \E io \in BOOLEAN :
        IF Len(usage_data) > 0 /\ SummaryException(usage_data) # "none"
        THEN /\ io
             /\ Abort(SummaryException(usage_data))
             /\ UNCHANGED <<files, summary>>
        ELSE /\ summary' = [made |-> TRUE, jobs |-> Len(usage_data)]
             \* the write to $GITHUB_STEP_SUMMARY; its failure is logged only
             /\ IF Truthy(Get(env.GITHUB_STEP_SUMMARY))
                THEN files' = IF io THEN files \cup {SummaryFile} ELSE files
                ELSE io /\ UNCHANGED files
             /\ pc' = "done"
             /\ exitCode' = 0
             /\ UNCHANGED exc
    /\ UNCHANGED <<env, api, page, repos, repoIdx, runs, runIdx, results,
                   usage_data, log, call>>

Next ==
    \/ ReadConfiguration
    \/ GetRepositoriesPage
    \/ GetWorkflowRuns
    \/ GetJobsForRun
    \/ GroupAndReturn
    \/ ExportToCsv
    \/ GenerateHtmlReport
    \/ GenerateGithubSummary

Spec == Init /\ [][Next]_vars

-----------------------------------------------------------------------------
(* Calls of the pure methods on enumerated arguments                        *)

\* main() not started: the state of every variable but `call`
Idle ==
    /\ pc = "idle"
    /\ env = [GITHUB_TOKEN |-> Str(Setting.tok), ORG_NAME |-> Str(Setting.acme),
              TARGET_RUNNER_LABEL |-> Missing, DAYS_BACK |-> Missing,
              GROUP_BY |-> Missing, STATUS_FILTER |-> Missing,
              REPO_FILTER |-> Missing, GITHUB_STEP_SUMMARY |-> Missing]
    /\ api = WorldEmpty
    /\ page = 0
    /\ repos = <<>>
    /\ repoIdx = 0
    /\ runs = <<>>
    /\ runIdx = 0
    /\ results = <<>>
    /\ usage_data = <<>>
    /\ log = <<>>
    /\ files = {}
    /\ exc = "none"
    /\ exitCode = -1
    /\ summary = [made |-> FALSE, jobs |-> 0]

IdleVars == <<pc, env, api, page, repos, repoIdx, runs, runIdx, results,
              usage_data, log, files, exc, exitCode, summary>>

\* The values started_at and completed_at take: the key missing, null, the
\* empty string, texts that are no timestamps, and well-formed timestamps
\* with a Z, with a numeric offset, with a fraction, and without an offset
TimestampValues ==
    {Missing, None, Str(s_empty), Str(Payload.soon), Str(Payload.t_month_13),
     Str(Payload.t_10_00_00Z), Str(Payload.t_10_02_38Z), Str(Payload.t_12_05_00Z), Str(Payload.t_09_59_59Z),
     Str(Payload.t_10_00_00), Str(Payload.t_10_00_01_500), Str(Payload.t_next_day)}

InitDuration ==
    /\ Idle
    /\ \E started_at \in TimestampValues, completed_at \in TimestampValues :
         call = [op |-> "_calculate_duration", returned |-> FALSE,
                 job |-> [started_at |-> started_at, completed_at |-> completed_at],
                 out |-> Return(s_empty)]

CalculateDuration ==
    /\ call.op = "_calculate_duration"
    /\ ~call.returned
    /\ call' = [call EXCEPT !.returned = TRUE, !.out = _calculate_duration(call.job)]
    /\ UNCHANGED IdleVars

NextDuration == CalculateDuration

SpecDuration == InitDuration /\ [][NextDuration]_vars


\* Bound of the model: records in one call of _group_results
MaxRecords == 3

\* Duration texts of the documented form MM:SS
DurationText ==
    [d_02_38 |-> <<"0","2",":","3","8">>,
     d_00_01 |-> <<"0","0",":","0","1">>,
     d_125_00 |-> <<"1","2","5",":","0","0">>]

\* Records as analyze_runner_usage builds them, with the Duration texts the
\* docstring of _calculate_duration names: "MM:SS" or "unknown"
GroupRecords ==
    {JobRecord(Setting.acme, RepoAPI, Run1,
               UbuntuJob(11, Payload.build, Str(Payload.t_10_00_00Z), None), DurationText.d_02_38),
     JobRecord(Setting.acme, RepoAPI, Run1, SelfHostedJob(12, Missing, Missing), s_unknown),
     JobRecord(Setting.acme, RepoAPI, Run1,
               RunningJob(13, Str(Payload.t_10_02_38Z)), DurationText.d_00_01),
     JobRecord(Setting.acme, RepoWeb, Run1,
               UbuntuJob(11, Payload.build, Str(Payload.t_10_00_00Z), None), s_unknown),
     JobRecord(Setting.acme, RepoWeb, Run1, SelfHostedJob(12, Missing, Missing), DurationText.d_125_00),
     JobRecord(Setting.acme, RepoWeb, Run1,
               RunningJob(13, Str(Payload.t_10_02_38Z)), DurationText.d_02_38)}

\* The recognized grouping fields, a name that is no key of a record, and
\* names whose title() is one
GroupFields ==
    {grp.repo, grp.label, grp.status, grp.workflow, grp.branch, grp.runner_type,
     grp.cost_category, Setting.owner, Setting.org, Setting.conclusion}

\* The records collected from three completed ubuntu-latest jobs and one
\* failed self-hosted job
ScenarioRecords ==
    << JobRecord(Setting.acme, RepoAPI, Run1,
                 UbuntuJob(11, Payload.build, Str(Payload.t_10_00_00Z), None), s_unknown),
       JobRecord(Setting.acme, RepoAPI, Run1,
                 UbuntuJob(12, Payload.test, Missing, Missing), s_unknown),
       JobRecord(Setting.acme, RepoAPI, Run1,
                 UbuntuJob(13, Payload.deploy, Str(s_empty), Str(Payload.t_10_02_38Z)), s_unknown),
       JobRecord(Setting.acme, RepoWeb, Run3,
                 SelfHostedJob(31, Str(Payload.t_10_00_00Z), Str(Setting.soon)), s_unknown) >>

RecordSeqs ==
    UNION {[1..n -> GroupRecords] : n \in 0..MaxRecords} \cup {ScenarioRecords}

InitGroup ==
    /\ Idle
    /\ \E rs \in RecordSeqs, g \in GroupFields :
         call = [op |-> "_group_results", returned |-> FALSE,
                 results |-> rs, group_by |-> g, out |-> <<>>]

\* a grouping that files each record by writing its group into the record
GroupResults_in_place ==
    /\ call.op = "_group_results"
    /\ ~call.returned
    /\ call' = [call EXCEPT
                  !.returned = TRUE,
                  !.out = _group_results(call.results, call.group_by),
                  !.results = [i \in 1..Len(call.results) |->
                                 (SummaryKey.Group :> GroupKey(call.results[i], call.group_by))
                                 @@ call.results[i]]]
    /\ UNCHANGED IdleVars

\* _group_results reads its records with get() and appends them to the lists
\* of `grouped`; it assigns to no record and to no element of `results`
GroupResults ==
    /\ call.op = "_group_results"
    /\ ~call.returned
    /\ call' = [call EXCEPT !.returned = TRUE,
                            !.out = _group_results(call.results, call.group_by)]
    /\ UNCHANGED IdleVars

NextGroup == GroupResults

SpecGroup == InitGroup /\ [][NextGroup]_vars

\* Bound of the model: labels of one job
MaxLabels == 2

\* Labels a job can carry
RunnerLabel ==
    [self_hosted |-> <<"s","e","l","f","-","h","o","s","t","e","d">>,
     Self_Hosted |-> <<"S","e","l","f","-","H","o","s","t","e","d">>,
     ubuntu_latest |-> <<"u","b","u","n","t","u","-","l","a","t","e","s","t">>,
     Windows_Latest |-> <<"W","i","n","d","o","w","s","-","L","a","t","e","s","t">>,
     macos_latest |-> <<"m","a","c","o","s","-","l","a","t","e","s","t">>,
     ubuntu_22_04 |-> <<"u","b","u","n","t","u","-","2","2",".","0","4">>,
     windows_2022 |-> <<"w","i","n","d","o","w","s","-","2","0","2","2">>,
     macos_13 |-> <<"m","a","c","o","s","-","1","3">>,
     linux |-> <<"l","i","n","u","x">>,
     gpu |-> <<"g","p","u">>,
     large |-> <<"l","a","r","g","e">>,
     xl |-> <<"x","l">>,
     xxl |-> <<"x","x","l">>,
     core4 |-> <<"4","-","c","o","r","e">>,
     core8 |-> <<"8","-","c","o","r","e">>,
     core16 |-> <<"1","6","-","c","o","r","e">>]

LabelTexts == {RunnerLabel[f] : f \in DOMAIN RunnerLabel}

LabelSeqs == UNION {[1..n -> LabelTexts] : n \in 0..MaxLabels}

InitCategorize ==
    /\ Idle
    /\ \E labels \in LabelSeqs, op \in {"_categorize_runner", "_get_cost_category", "record"} :
         call = [op |-> op, returned |-> FALSE, labels |-> labels, out |-> s_empty]

CategorizeRunner ==
    /\ call.op = "_categorize_runner"
    /\ ~call.returned
    /\ call' = [call EXCEPT !.returned = TRUE, !.out = _categorize_runner(call.labels)]
    /\ UNCHANGED IdleVars

GetCostCategory ==
    /\ call.op = "_get_cost_category"
    /\ ~call.returned
    /\ call' = [call EXCEPT !.returned = TRUE, !.out = _get_cost_category(call.labels)]
    /\ UNCHANGED IdleVars

\* lines 224-236: the record of a job with these labels, which holds both
\* classifications
ClassifyRecord ==
    /\ call.op = "record"
    /\ ~call.returned
    /\ call' = [call EXCEPT
                  !.returned = TRUE,
                  !.out = JobRecord(Setting.acme, RepoAPI, Run1,
                                    [UbuntuJob(11, Payload.build, Missing, Missing)
                                        EXCEPT !.labels = call.labels],
                                    s_unknown)]
    /\ UNCHANGED IdleVars

NextCategorize == CategorizeRunner \/ GetCostCategory \/ ClassifyRecord

SpecCategorize == InitCategorize /\ [][NextCategorize]_vars

\* An organization of n pages of one repository each, the repository of page
\* p named after p
NumberedRepo(p) == [name |-> <<"r">> \o NatToStr(p), default_branch |-> Payload.main]
WorldOfPages(n) ==
    [pages |-> [p \in 1..n |-> <<NumberedRepo(p)>>], runs |-> NoRuns, jobs |-> NoJobs]

\* Organizations that end before, at and after the page ceiling
EnumerationWorlds ==
    {WorldEmpty, WorldScenario, WorldOfPages(PageLimit - 1), WorldOfPages(PageLimit),
     WorldOfPages(PageLimit + 2)}

\* analyze_runner_usage has just called get_repositories
InitEnumerate ==
    /\ pc = "get_repositories"
    /\ env = [GITHUB_TOKEN |-> Str(Setting.tok), ORG_NAME |-> Str(Setting.acme),
              TARGET_RUNNER_LABEL |-> Missing, DAYS_BACK |-> Missing,
              GROUP_BY |-> Missing, STATUS_FILTER |-> Missing,
              REPO_FILTER |-> Missing, GITHUB_STEP_SUMMARY |-> Missing]
    /\ api \in EnumerationWorlds
    /\ page = 1
    /\ repos = <<>>
    /\ repoIdx = 0
    /\ runs = <<>>
    /\ runIdx = 0
    /\ results = <<>>
    /\ usage_data = <<>>
    /\ log = <<>>
    /\ files = {}
    /\ exc = "none"
    /\ exitCode = -1
    /\ summary = [made |-> FALSE, jobs |-> 0]
    /\ call = [op |-> "get_repositories"]

NextEnumerate == GetRepositoriesPage

\* the loop is synchronous code: while it has an iteration to run, it runs it
SpecEnumerate == InitEnumerate /\ [][NextEnumerate]_vars /\ WF_vars(NextEnumerate)



-----------------------------------------------------------------------------
(* Properties of _calculate_duration                                        *)

BothParse(job) ==
    /\ Truthy(Get(job.started_at)) /\ Truthy(Get(job.completed_at))
    /\ fromisoformat(ReplaceZ(job.started_at.s)).ok
    /\ fromisoformat(ReplaceZ(job.completed_at.s)).ok
    /\ fromisoformat(ReplaceZ(job.started_at.s)).aware
         = fromisoformat(ReplaceZ(job.completed_at.s)).aware

\* whole seconds from started_at to completed_at, rounded down
ElapsedFloor(job) ==
    LET a == fromisoformat(ReplaceZ(job.started_at.s))
        b == fromisoformat(ReplaceZ(job.completed_at.s))
        dsec == (b.day - a.day) * 86400 + (b.sec - a.sec)
    IN  IF b.us < a.us THEN dsec - 1 ELSE dsec

\* C1: _calculate_duration never raises: whatever started_at and completed_at
\* hold, the call returns a string.
C1_NeverRaises ==
    (call.op = "_calculate_duration" /\ call.returned) => call.out.raised = "none"

\* C2: when both timestamps parse and completed >= started, the result is
\* MM:SS, MM the whole minutes (at least two digits, not wrapped into hours)
\* and SS the remaining seconds on two digits; 10:00:00Z to 10:02:38Z gives
\* "02:38" and 125 minutes give "125:00".
C2_FormatsMinutesSeconds ==
    (call.op = "_calculate_duration" /\ call.returned) =>
        /\ (BothParse(call.job) /\ ElapsedFloor(call.job) >= 0) =>
              call.out = Return(Format02d(ElapsedFloor(call.job) \div 60) \o <<":">>
                                \o Format02d(ElapsedFloor(call.job) % 60))
        /\ (call.job = [started_at |-> Str(Payload.t_10_00_00Z), completed_at |-> Str(Payload.t_10_02_38Z)]) =>
              call.out = Return(<<"0","2",":","3","8">>)
        /\ (call.job = [started_at |-> Str(Payload.t_10_00_00Z), completed_at |-> Str(Payload.t_12_05_00Z)]) =>
              call.out = Return(<<"1","2","5",":","0","0">>)

-----------------------------------------------------------------------------
(* What was fetched, read off the API data and the request log              *)

RunsFetched(repo) ==
    \E i \in 1..Len(log) : log[i].kind = "runs" /\ log[i].repo = repo.name /\ log[i].ok
JobsFetched(run) ==
    \E i \in 1..Len(log) : log[i].kind = "jobs" /\ log[i].n = run.id /\ log[i].ok
Requested(kind, repo, n) ==
    Cardinality({i \in 1..Len(log) :
        log[i].kind = kind /\ log[i].repo = repo.name /\ log[i].n = n})

NameMatches(repo) ==
    ~Truthy(repo_filter) \/ Contains(Lower(repo_filter.s), Lower(repo.name))

\* the repositories of the organization that pass the name filter, in
\* discovery order
DiscoveredRepos == SelectSeq(Flatten(api.pages), NameMatches)

\* the fetched jobs in fetch order, each with its repository and run
RECURSIVE FetchedOfRuns(_, _)
FetchedOfRuns(repo, rs) ==
    IF Len(rs) = 0 THEN <<>>
    ELSE (IF JobsFetched(rs[1])
          THEN [i \in 1..Len(api.jobs[rs[1].id]) |->
                  [repo |-> repo, run |-> rs[1], job |-> api.jobs[rs[1].id][i]]]
          ELSE <<>>)
         \o FetchedOfRuns(repo, Tail(rs))

RECURSIVE FetchedOfRepos(_)
FetchedOfRepos(rs) ==
    IF Len(rs) = 0 THEN <<>>
    ELSE (IF RunsFetched(rs[1]) THEN FetchedOfRuns(rs[1], api.runs[rs[1].name]) ELSE <<>>)
         \o FetchedOfRepos(Tail(rs))

FetchedJobs == FetchedOfRepos(DiscoveredRepos)

\* identity of a fetched job and of a record
JobIdent(f) == <<f.repo.name, f.run.id, f.job.id>>
RecordIdent(r) == <<r[JobKey.Repo].s, r[JobKey.Run_ID].n, r[JobKey.Job_ID].n>>
Idents(q, Ident(_)) == [i \in 1..Len(q) |-> Ident(q[i])]

\* the two filters as the specification words them
StatusMatches(f) ==
    ~Truthy(status_filter) \/ Lower(status_filter.s) = Lower(f.job.status)
LabelMatches(f) ==
    target_label = None \/ \E i \in 1..Len(f.job.labels) : f.job.labels[i] = target_label.s
Retained(f) == StatusMatches(f) /\ LabelMatches(f)

\* analyze_runner_usage has returned to main
Returned == pc \in {"export_to_csv", "generate_html_report", "generate_github_summary", "done"}
             \/ (pc = "exited" /\ exc \in {"KeyError", "TypeError", "OSError"})

\* analyze_runner_usage is collecting, or has collected and not yet grouped;
\* or it was left by an exception on the way
Collecting ==
    pc \in {"get_repositories", "get_workflow_runs", "get_jobs_for_run", "group"}
AbortedCollecting ==
    pc = "exited" /\ exc \in {"GitHubAPIError", "AttributeError"}

\* GROUP_BY asks for the flat report: unset, or the sentinel in any case
FlatRequested == env.GROUP_BY \in {Missing, Str(s_none), Str(Setting.NONE)}

-----------------------------------------------------------------------------
(* Properties of the collection and of main                                 *)

\* C3: every emitter accepts both shapes: for a non-empty result, flat or
\* grouped, no emitter raises on the data (KeyError, TypeError, ValueError),
\* and when main ends normally all three artifacts were produced.
C3_EmittersAcceptBothShapes ==
    Len(usage_data) > 0 =>
        /\ exc \notin {"KeyError", "TypeError", "ValueError"}
        /\ pc = "done" => (CsvFile \in files /\ HtmlFile \in files /\ summary.made)

\* the records the jobs of one run contribute when their listing succeeds
Contribution(repo, run) == ProcessJobs(api.jobs[run.id], repo, run, <<>>).results

RECURSIVE ContributionOfRuns(_, _)
ContributionOfRuns(repo, rs) ==
    IF Len(rs) = 0 THEN <<>>
    ELSE (IF JobsFetched(rs[1]) THEN Contribution(repo, rs[1]) ELSE <<>>)
         \o ContributionOfRuns(repo, Tail(rs))

RECURSIVE ContributionOfRepos(_)
ContributionOfRepos(rs) ==
    IF Len(rs) = 0 THEN <<>>
    ELSE (IF RunsFetched(rs[1]) THEN ContributionOfRuns(rs[1], api.runs[rs[1].name]) ELSE <<>>)
         \o ContributionOfRepos(Tail(rs))

\* every repository was asked for its runs once and, where that succeeded,
\* every run for its jobs once
AllAttempted ==
    \A i \in 1..Len(DiscoveredRepos) :
        LET repo == DiscoveredRepos[i] IN
        /\ Requested("runs", repo, 0) = 1
        /\ \A j \in 1..Len(api.runs[repo.name]) :
              Requested("jobs", repo, api.runs[repo.name][j].id)
                 = IF RunsFetched(repo) THEN 1 ELSE 0

RunOrJobListingFailed ==
    \E i \in 1..Len(log) : log[i].kind \in {"runs", "jobs"} /\ ~log[i].ok

\* C4: a failed listing of the runs of a repository or of the jobs of a run
\* is not fatal: the only GitHubAPIError that ends the process comes from the
\* repository enumeration, and when the collection loop ends every unit was
\* attempted and the records are those of the units whose listing succeeded,
\* each contributing what it contributes without any failure.
C4_RunAndJobFetchErrorsNotFatal ==
    /\ exc = "GitHubAPIError" =>
          (log[Len(log)].kind = "repos" /\ ~log[Len(log)].ok
           /\ \A i \in 1..Len(log) : log[i].kind = "repos")
    /\ pc = "group" =>
          (AllAttempted /\ results = ContributionOfRepos(DiscoveredRepos))

C4_Witness ==
    /\ pc = "group"
    /\ \E i \in 1..Len(log) : log[i].kind = "runs" /\ log[i].response = "JSONDecodeError"
    /\ \E i \in 1..Len(log) : log[i].kind = "jobs" /\ log[i].response = "HTTPError"
    /\ Len(results) >= 2

\* C5: a failed page of the repository enumeration ends everything: the
\* process exits with status 1 on GitHubAPIError, the failed request is the
\* last one issued, no run or job listing was requested, nothing was
\* collected from the pages already fetched and no artifact was written.
C5_RepositoryFetchErrorFatal ==
    (\E i \in 1..Len(log) : log[i].kind = "repos" /\ ~log[i].ok) =>
        /\ pc = "exited" /\ exitCode = 1 /\ exc = "GitHubAPIError"
        /\ ~log[Len(log)].ok
        /\ \A i \in 1..Len(log) : log[i].kind = "repos" /\ (i < Len(log) => log[i].ok)
        /\ results = <<>> /\ usage_data = <<>>
        /\ files = {} /\ ~summary.made

C5_Witness ==
    /\ exc = "GitHubAPIError"
    /\ Len(log) = 2
    /\ log[1].ok /\ Len(RepoPage(1)) > 0

\* C6: a record is only ever made of a fetched job that matches the status
\* filter (unset, or equal ignoring case) and the label filter (unset, or the
\* target an exact member of the job's labels), and as long as nothing was
\* raised every fetched job that matches both has its record; filtering by
\* label first or by status first retains the same jobs; 'self-hosted' over
\* the three ubuntu-latest jobs and the one self-hosted job retains, once the
\* collection is over, exactly the self-hosted one.
C6_RetainedIffBothFiltersMatch ==
    /\ (Collecting \/ AbortedCollecting) =>
          \A j \in 1..Len(results) : \E i \in 1..Len(FetchedJobs) :
              RecordIdent(results[j]) = JobIdent(FetchedJobs[i]) /\ Retained(FetchedJobs[i])
    /\ Collecting =>
        LET got == {RecordIdent(results[i]) : i \in 1..Len(results)} IN
        /\ \A i \in 1..Len(FetchedJobs) :
              (JobIdent(FetchedJobs[i]) \in got) <=> Retained(FetchedJobs[i])
        /\ got = {JobIdent(f) : f \in
                    {x \in {FetchedJobs[i] : i \in 1..Len(FetchedJobs)} : Retained(x)}}
        /\ Idents(SelectSeq(SelectSeq(FetchedJobs, StatusMatches), LabelMatches), JobIdent)
             = Idents(SelectSeq(SelectSeq(FetchedJobs, LabelMatches), StatusMatches), JobIdent)
        /\ (/\ pc = "group" /\ api = WorldScenario /\ target_label = Str(cls.self_hosted)
            /\ ~Truthy(status_filter) /\ ~Truthy(repo_filter) /\ Failures = 0)
           => got = {<<Payload.web, 3, 31>>}

C6_Witness ==
    /\ pc = "group"
    /\ Truthy(status_filter) /\ Truthy(target_label)
    /\ \E i \in 1..Len(FetchedJobs) : Retained(FetchedJobs[i])
    /\ \E i \in 1..Len(FetchedJobs) :
          StatusMatches(FetchedJobs[i]) /\ ~LabelMatches(FetchedJobs[i])
    /\ \E i \in 1..Len(FetchedJobs) :
          ~StatusMatches(FetchedJobs[i]) /\ LabelMatches(FetchedJobs[i])

\* C7: with no target label, every job that passes the status filter is
\* retained whatever its labels, "no target label" being every value for
\* which the analyzer logs "no label filter": TARGET_RUNNER_LABEL unset and
\* TARGET_RUNNER_LABEL empty.
C7_NoTargetLabelRetainsAll ==
    (pc = "group" /\ ~Truthy(target_label)) =>
        \A i \in 1..Len(FetchedJobs) :
            StatusMatches(FetchedJobs[i]) =>
                \E j \in 1..Len(results) : RecordIdent(results[j]) = JobIdent(FetchedJobs[i])

\* C8: in flat mode the returned sequence is the retained jobs in fetch order
\* (repositories in discovery order after the name filter, runs in listing
\* order, jobs in listing order), each job at most once.
C8_FlatOutputInFetchOrder ==
    (Returned /\ FlatRequested) =>
        /\ Idents(usage_data, RecordIdent) = Idents(SelectSeq(FetchedJobs, Retained), JobIdent)
        /\ \A i, j \in 1..Len(usage_data) :
              RecordIdent(usage_data[i]) = RecordIdent(usage_data[j]) => i = j

C8_Witness ==
    /\ Returned /\ FlatRequested
    /\ Len(usage_data) >= 3
    /\ \E i, j \in 1..Len(usage_data) : usage_data[i][JobKey.Repo] # usage_data[j][JobKey.Repo]
    /\ \E i, j \in 1..Len(usage_data) :
          /\ usage_data[i][JobKey.Repo] = usage_data[j][JobKey.Repo]
          /\ usage_data[i][JobKey.Run_ID] = usage_data[j][JobKey.Run_ID]
          /\ i # j
    /\ \E i, j \in 1..Len(usage_data) :
          /\ usage_data[i][JobKey.Repo] = usage_data[j][JobKey.Repo]
          /\ usage_data[i][JobKey.Run_ID] # usage_data[j][JobKey.Run_ID]
    /\ Len(SelectSeq(FetchedJobs, Retained)) < Len(FetchedJobs)

\* C10: flat mode is the identity: when GROUP_BY is unset or the sentinel
\* 'none', the step that ends analyze_runner_usage hands main the collected
\* records unchanged (same records, same order, same length), none of them a
\* group summary.
C10_FlatModeIsIdentity ==
    [][(pc = "group" /\ FlatRequested) =>
          /\ usage_data' = results
          /\ results' = results
          /\ \A i \in 1..Len(usage_data') : ~HasKey(usage_data'[i], SummaryKey.Group)]_vars

C10_Witness ==
    /\ pc = "export_to_csv" /\ FlatRequested
    /\ env.GROUP_BY = Str(Setting.NONE)
    /\ Len(usage_data) >= 2
    /\ usage_data = results

-----------------------------------------------------------------------------
(* Properties of _group_results                                             *)

\* the record key each recognized grouping field stands for
FieldOf(g) ==
    CASE g = grp.repo          -> JobKey.Repo
      [] g = grp.label         -> JobKey.Runner_Labels
      [] g = grp.status        -> JobKey.Job_Status
      [] g = grp.workflow      -> JobKey.Workflow_Name
      [] g = grp.branch        -> JobKey.Branch
      [] g = grp.runner_type   -> JobKey.Runner_Type
      [] g = grp.cost_category -> JobKey.Cost_Category

RecognizedFields ==
    {grp.repo, grp.label, grp.status, grp.workflow, grp.branch, grp.runner_type, grp.cost_category}

RECURSIVE SumTotalJobs(_)
SumTotalJobs(S) ==
    IF Len(S) = 0 THEN 0 ELSE S[1][SummaryKey.Total_Jobs].n + SumTotalJobs(Tail(S))

\* C9: grouping partitions the input: the Total Jobs of the summaries sum to
\* len(R); every summary counts at least one job; for a recognized field,
\* every value of the field among the records is the Group of exactly one
\* summary, which counts exactly the records with that value, and no summary
\* has another Group; an empty R yields no summary.
C9_GroupingIsPartition ==
    (call.op = "_group_results" /\ call.returned) =>
        LET R == call.results
            G == call.group_by
            S == call.out
        IN
        /\ SumTotalJobs(S) = Len(R)
        /\ \A i \in 1..Len(S) : S[i][SummaryKey.Total_Jobs].n >= 1
        /\ G \in RecognizedFields =>
              /\ \A a \in 1..Len(R) :
                    /\ Cardinality({i \in 1..Len(S) : S[i][SummaryKey.Group] = R[a][FieldOf(G)]}) = 1
                    /\ \A i \in 1..Len(S) :
                          S[i][SummaryKey.Group] = R[a][FieldOf(G)] =>
                            S[i][SummaryKey.Total_Jobs].n =
                              Cardinality({b \in 1..Len(R) : R[b][FieldOf(G)] = R[a][FieldOf(G)]})
              /\ \A i \in 1..Len(S) : \E a \in 1..Len(R) : S[i][SummaryKey.Group] = R[a][FieldOf(G)]
        /\ Len(R) = 0 => Len(S) = 0

C9_Witness ==
    /\ call.op = "_group_results" /\ call.returned
    /\ call.group_by = grp.status
    /\ Len(call.results) = 3
    /\ Len(call.out) = 2
    /\ call.results[1][JobKey.Job_Status] = call.results[3][JobKey.Job_Status]
    /\ call.results[1][JobKey.Job_Status] # call.results[2][JobKey.Job_Status]

\* C11: a grouping field that is neither 'none' nor one of the seven
\* recognized names puts every record of a non-empty input in one group:
\* exactly one summary, its Group 'Unknown', its Total Jobs the number of
\* records.
C11_UnrecognizedFieldIsUnknown ==
    (/\ call.op = "_group_results" /\ call.returned
     /\ call.group_by \notin RecognizedFields \cup {s_none}
     /\ Len(call.results) > 0)
    => /\ Len(call.out) = 1
       /\ call.out[1][SummaryKey.Group] = Str(s_Unknown)
       /\ call.out[1][SummaryKey.Total_Jobs] = IntVal(Len(call.results))

\* the records of the input that a summary of a recognized field stands for
Members(R, G, group_summary) ==
    {a \in 1..Len(R) : R[a][FieldOf(G)] = group_summary[SummaryKey.Group]}

\* a text of the form <digits>.<digit>%, and the number of tenths it names
IsOneDecimalPercent(t) ==
    /\ Len(t) >= 4
    /\ t[Len(t)] = "%" /\ t[Len(t) - 2] = "." /\ IsDigit(t[Len(t) - 1])
    /\ AllDigits(SubSeq(t, 1, Len(t) - 3))
Tenths(t) == DigitsToInt(SubSeq(t, 1, Len(t) - 3)) * 10 + DigitVal(t[Len(t) - 1])

Abs(x) == IF x < 0 THEN 0 - x ELSE x

\* C12: in every summary of a recognized field, Successful Jobs counts the
\* group's records with Job Status 'completed', Failed Jobs those with Job
\* Status 'failure', and Success Rate is a percentage with one decimal that
\* lies within half a tenth of successful/total (never the bare '0%', no
\* summary having a total of zero); three 'completed' and one 'failure'
\* record grouped by status give 'completed' (3, 3, '100.0%') and 'failure'
\* (1, 0, '0.0%').
C12_CountsAndSuccessRate ==
    (call.op = "_group_results" /\ call.returned) =>
        LET R == call.results
            G == call.group_by
            S == call.out
        IN
        /\ G \in RecognizedFields =>
              \A i \in 1..Len(S) :
                  LET M == Members(R, G, S[i])
                      successful == Cardinality({a \in M : R[a][JobKey.Job_Status] = Str(grp.completed)})
                      failed == Cardinality({a \in M : R[a][JobKey.Job_Status] = Str(grp.failure)})
                      rate == S[i][SummaryKey.Success_Rate].s
                  IN  /\ S[i][SummaryKey.Total_Jobs] = IntVal(Cardinality(M))
                      /\ S[i][SummaryKey.Successful_Jobs] = IntVal(successful)
                      /\ S[i][SummaryKey.Failed_Jobs] = IntVal(failed)
                      /\ IsOneDecimalPercent(rate)
                      /\ 2 * Abs(Tenths(rate) * Cardinality(M) - 1000 * successful) <= Cardinality(M)
        /\ (R = ScenarioRecords /\ G = grp.status) =>
              /\ Len(S) = 2
              /\ S[1][SummaryKey.Group] = Str(grp.completed)
              /\ S[1][SummaryKey.Total_Jobs] = IntVal(3)
              /\ S[1][SummaryKey.Successful_Jobs] = IntVal(3)
              /\ S[1][SummaryKey.Success_Rate] = Str(<<"1","0","0",".","0","%">>)
              /\ S[2][SummaryKey.Group] = Str(grp.failure)
              /\ S[2][SummaryKey.Total_Jobs] = IntVal(1)
              /\ S[2][SummaryKey.Successful_Jobs] = IntVal(0)
              /\ S[2][SummaryKey.Success_Rate] = Str(<<"0",".","0","%">>)

C12_Witness ==
    /\ call.op = "_group_results" /\ call.returned
    /\ call.group_by = grp.repo
    /\ \E i \in 1..Len(call.out) :
          /\ call.out[i][SummaryKey.Total_Jobs] = IntVal(3)
          /\ call.out[i][SummaryKey.Successful_Jobs] = IntVal(2)
          /\ call.out[i][SummaryKey.Failed_Jobs] = IntVal(1)
          /\ call.out[i][SummaryKey.Success_Rate] = Str(<<"6","6",".","7","%">>)

\* a text of the form MM:SS (two or more digits, a colon, two digits below
\* sixty) and the seconds it names
IsMinutesSeconds(t) ==
    /\ Len(t) >= 5
    /\ t[Len(t) - 2] = ":"
    /\ AllDigits(SubSeq(t, 1, Len(t) - 3))
    /\ AllDigits(SubSeq(t, Len(t) - 1, Len(t)))
    /\ DigitsToInt(SubSeq(t, Len(t) - 1, Len(t))) < 60
SecondsOf(t) ==
    DigitsToInt(SubSeq(t, 1, Len(t) - 3)) * 60 + DigitsToInt(SubSeq(t, Len(t) - 1, Len(t)))

RECURSIVE SumSeconds(_, _)
SumSeconds(R, M) ==
    IF M = {} THEN 0
    ELSE LET a == CHOOSE x \in M : TRUE
         IN  SecondsOf(R[a][JobKey.Duration].s) + SumSeconds(R, M \ {a})

\* C13: in every summary of a recognized field, Average Duration is
\* 'unknown' exactly when no record of the group has a Duration of the form
\* MM:SS; otherwise it is an MM:SS text naming the mean of those durations,
\* the records with Duration 'unknown' counted neither in the sum nor in the
\* number, cut to whole seconds.
C13_AverageOfParseableDurations ==
    (call.op = "_group_results" /\ call.returned /\ call.group_by \in RecognizedFields) =>
        \A i \in 1..Len(call.out) :
            LET R == call.results
                P == {a \in Members(R, call.group_by, call.out[i]) :
                         IsMinutesSeconds(R[a][JobKey.Duration].s)}
                average == call.out[i][SummaryKey.Average_Duration].s
            IN  /\ (average = s_unknown) <=> (P = {})
                /\ P # {} =>
                      /\ IsMinutesSeconds(average)
                      /\ SecondsOf(average) * Cardinality(P) <= SumSeconds(R, P)
                      /\ SumSeconds(R, P) < (SecondsOf(average) + 1) * Cardinality(P)

C13_Witness ==
    /\ call.op = "_group_results" /\ call.returned
    /\ call.group_by = grp.repo
    /\ \E i \in 1..Len(call.out) :
          /\ call.out[i][SummaryKey.Total_Jobs] = IntVal(3)
          /\ call.out[i][SummaryKey.Average_Duration] = Str(<<"0","1",":","1","9">>)
    /\ \E i \in 1..Len(call.results) : call.results[i][JobKey.Duration] = Str(s_unknown)

\* some label of the list contains the fragment, letter case aside
Mentions(labels, fragment) ==
    \E i \in 1..Len(labels) : Contains(fragment, Lower(labels[i]))
MentionsAny(labels, fragments) ==
    \E fragment \in fragments : Mentions(labels, fragment)

Reorderings(n) ==
    {p \in [1..n -> 1..n] : \A i, j \in 1..n : p[i] = p[j] => i = j}

\* C14: _categorize_runner returns, for every label list, the category of the
\* first rule that applies: 'self-hosted' -> Self-hosted; one of
\* ubuntu-latest, windows-latest, macos-latest -> GitHub-hosted; 'ubuntu' ->
\* Ubuntu; 'windows' -> Windows; 'macos' -> macOS; 'linux' -> Linux;
\* otherwise, and for no labels, Unknown; reordering the labels does not
\* change the result.
C14_CategorizeRunnerFirstMatch ==
    (call.op = "_categorize_runner" /\ call.returned) =>
        LET L == call.labels IN
        /\ call.out =
              (IF Mentions(L, <<"s","e","l","f","-","h","o","s","t","e","d">>)
                 THEN <<"S","e","l","f","-","h","o","s","t","e","d">>
               ELSE IF MentionsAny(L, {<<"u","b","u","n","t","u","-","l","a","t","e","s","t">>,
                                       <<"w","i","n","d","o","w","s","-","l","a","t","e","s","t">>,
                                       <<"m","a","c","o","s","-","l","a","t","e","s","t">>})
                 THEN <<"G","i","t","H","u","b","-","h","o","s","t","e","d">>
               ELSE IF Mentions(L, <<"u","b","u","n","t","u">>) THEN <<"U","b","u","n","t","u">>
               ELSE IF Mentions(L, <<"w","i","n","d","o","w","s">>) THEN <<"W","i","n","d","o","w","s">>
               ELSE IF Mentions(L, <<"m","a","c","o","s">>) THEN <<"m","a","c","O","S">>
               ELSE IF Mentions(L, <<"l","i","n","u","x">>) THEN <<"L","i","n","u","x">>
               ELSE <<"U","n","k","n","o","w","n">>)
        /\ Len(L) = 0 => call.out = <<"U","n","k","n","o","w","n">>
        /\ \A p \in Reorderings(Len(L)) :
              _categorize_runner([i \in 1..Len(L) |-> L[p[i]]]) = call.out

C14_Witness ==
    /\ call.op = "_categorize_runner" /\ call.returned
    /\ Len(call.labels) = 2
    /\ call.labels[1] = RunnerLabel.ubuntu_22_04
    /\ call.labels[2] = RunnerLabel.Self_Hosted
    /\ call.out = cls.Self_hosted

\* C15: _get_cost_category returns, for every label list, the category of
\* the first rule that applies: 'self-hosted' -> Self-hosted (Custom Cost);
\* one of large, xl, xxl, 4-core, 8-core, 16-core -> Large Instance; one of
\* ubuntu-latest, windows-latest, macos-latest -> Standard GitHub-hosted;
\* otherwise Standard.
C15_CostCategoryFirstMatch ==
    (call.op = "_get_cost_category" /\ call.returned) =>
        LET L == call.labels IN
        call.out =
          (IF Mentions(L, <<"s","e","l","f","-","h","o","s","t","e","d">>)
             THEN <<"S","e","l","f","-","h","o","s","t","e","d"," ","(","C","u","s","t","o","m"," ","C","o","s","t",")">>
           ELSE IF MentionsAny(L, {<<"l","a","r","g","e">>, <<"x","l">>, <<"x","x","l">>,
                                   <<"4","-","c","o","r","e">>, <<"8","-","c","o","r","e">>,
                                   <<"1","6","-","c","o","r","e">>})
             THEN <<"L","a","r","g","e"," ","I","n","s","t","a","n","c","e">>
           ELSE IF MentionsAny(L, {<<"u","b","u","n","t","u","-","l","a","t","e","s","t">>,
                                   <<"w","i","n","d","o","w","s","-","l","a","t","e","s","t">>,
                                   <<"m","a","c","o","s","-","l","a","t","e","s","t">>})
             THEN <<"S","t","a","n","d","a","r","d"," ","G","i","t","H","u","b","-","h","o","s","t","e","d">>
           ELSE <<"S","t","a","n","d","a","r","d">>)

C15_Witness ==
    /\ call.op = "_get_cost_category" /\ call.returned
    /\ Len(call.labels) = 2
    /\ call.labels[1] = RunnerLabel.Windows_Latest
    /\ call.labels[2] = RunnerLabel.core8
    /\ call.out = cls.Large_Instance

\* C16: _calculate_duration returns 'unknown' when started_at or completed_at
\* is absent or empty, when either is no timestamp, and when both are
\* timestamps and completed_at is the earlier one.
C16_UnknownOnBadInput ==
    (call.op = "_calculate_duration" /\ call.returned) =>
        LET started_at == Get(call.job.started_at)
            completed_at == Get(call.job.completed_at)
        IN  (\/ ~Truthy(started_at)
             \/ ~Truthy(completed_at)
             \/ ~fromisoformat(ReplaceZ(started_at.s)).ok
             \/ ~fromisoformat(ReplaceZ(completed_at.s)).ok
             \/ (BothParse(call.job) /\ ElapsedFloor(call.job) < 0))
            => call.out = Return(s_unknown)

\* C17: a failed write of one artifact costs that artifact only: main is
\* never ended by the OSError of an emitter, so the emitters after it run.
C17_WriteFailureOnlyLosesArtifact ==
    pc = "exited" => exc # "OSError"

\* C18: with GITHUB_TOKEN or ORG_NAME missing or empty, main goes from its
\* start straight to exit status 1: no API request was issued and no
\* artifact was written.
C18_ConfigurationErrorBeforeWork ==
    (\/ env.GITHUB_TOKEN \in {Missing, Str(s_empty)}
     \/ env.ORG_NAME \in {Missing, Str(s_empty)})
    => /\ pc = "main" \/ (pc = "exited" /\ exitCode = 1 /\ exc = "ValueError")
       /\ log = <<>>
       /\ files = {}
       /\ ~summary.made
       /\ results = <<>> /\ usage_data = <<>>

C18_Witness ==
    /\ pc = "exited" /\ exitCode = 1
    /\ env.GITHUB_TOKEN = Str(s_empty)
    /\ Truthy(org_name)
    /\ ~DaysBackRaises

\* C19: grouping leaves its input as it was: after _group_results the list
\* passed in holds the same records with the same fields and values, and no
\* summary is one of the records (a summary shares no key with a record).
C19_GroupingDoesNotMutate ==
    [][(call.op = "_group_results" /\ ~call.returned) =>
          /\ call'.results = call.results
          /\ \A i \in 1..Len(call'.out) : \A a \in 1..Len(call.results) :
                /\ call'.out[i] # call.results[a]
                /\ DOMAIN call'.out[i] \cap DOMAIN call.results[a] = {}]_vars

C19_Witness ==
    /\ call.op = "_group_results" /\ call.returned
    /\ Len(call.results) = 3
    /\ Len(call.out) = 2
    /\ call.group_by = grp.label

\* the repository names of the run listings requested so far, in order
RunListingRepos ==
    LET q == SelectSeq(log, LAMBDA e : e.kind = "runs")
    IN  [i \in 1..Len(q) |-> q[i].repo]

\* a repository name holds the filter text, letter case aside
HoldsFilter(name) == Contains(Lower(repo_filter.s), Lower(name))

\* C20: with a repository filter set, the repositories processed are the
\* discovered ones whose name contains the filter, letter case aside, in
\* discovery order: the run listings requested so far are a prefix of them
\* and, once the collection is over, all of them; no run or job listing is
\* requested for another repository and no record names another one.
C20_RepositoryFilter ==
    Truthy(repo_filter) =>
        LET matching == SelectSeq(Flatten(api.pages), LAMBDA r : HoldsFilter(r.name))
            names == [i \in 1..Len(matching) |-> matching[i].name]
        IN
        /\ Len(RunListingRepos) <= Len(names)
        /\ RunListingRepos = SubSeq(names, 1, Len(RunListingRepos))
        /\ pc = "group" => RunListingRepos = names
        /\ \A i \in 1..Len(log) :
              log[i].kind \in {"runs", "jobs"} => HoldsFilter(log[i].repo)
        /\ (Collecting \/ AbortedCollecting) =>
              \A j \in 1..Len(results) : HoldsFilter(results[j][JobKey.Repo].s)
        /\ (Returned /\ FlatRequested) =>
              \A j \in 1..Len(usage_data) : HoldsFilter(usage_data[j][JobKey.Repo].s)
        /\ (Returned /\ group_by = grp.repo) =>
              \A j \in 1..Len(usage_data) : HoldsFilter(usage_data[j][SummaryKey.Group].s)

C20_Witness ==
    /\ pc = "group"
    /\ Truthy(repo_filter)
    /\ \E i \in 1..Len(Flatten(api.pages)) : ~HoldsFilter(Flatten(api.pages)[i].name)
    /\ Len(RunListingRepos) >= 1
    /\ RunListingRepos[1] # repo_filter.s
    /\ Len(results) >= 2

\* the pages 1..n of the organization, concatenated
RECURSIVE PagesUpTo(_)
PagesUpTo(n) == IF n = 0 THEN <<>> ELSE PagesUpTo(n - 1) \o RepoPage(n)

\* get_repositories has returned
Enumerated == pc \notin {"get_repositories", "exited"}

PagesInOrder ==
    /\ \A i \in 1..Len(log) : log[i].kind = "repos" /\ log[i].n = i
    /\ Len(log) <= 100
    /\ \A i \in 1..(Len(log) - 1) : log[i].ok /\ Len(RepoPage(i)) > 0
    /\ pc = "get_repositories" => repos = PagesUpTo(Len(log))
    /\ Enumerated =>
          /\ log[Len(log)].ok
          /\ Len(RepoPage(Len(log))) = 0 \/ Len(log) = 100
          /\ repos = PagesUpTo(Len(log))

\* C21: get_repositories requests the pages 1, 2, ... in order, goes on only
\* after a non-empty page, requests at most 100 pages, returns the non-empty
\* pages fetched concatenated in page order, having stopped at the first
\* empty page or after page 100, and always comes to an end.
C21_EnumerationTerminates ==
    /\ []PagesInOrder
    /\ <>(pc # "get_repositories")

C21_Witness ==
    /\ Enumerated
    /\ Len(log) = 100
    /\ Len(repos) = 100
    /\ Len(api.pages) > 100
    /\ repos[100] = NumberedRepo(100)

\* the requests that follow the repository listing
ListingFetches == SelectSeq(log, LAMBDA e : e.kind # "repos")

\* t is what the loops over the repositories rs request, as far as t goes
\* (all of it when `whole`): for each repository one run listing on its
\* default branch, then one job listing per run that listing returned, in
\* run order, then the next repository
RECURSIVE FetchesFollow(_, _, _)
FetchesFollow(t, rs, whole) ==
    IF Len(rs) = 0 THEN Len(t) = 0
    ELSE IF Len(t) = 0 THEN ~whole
    ELSE LET repo   == rs[1]
             listed == IF t[1].ok THEN api.runs[repo.name] ELSE <<>>
         IN  /\ t[1].kind = "runs"
             /\ t[1].repo = repo.name
             /\ t[1].branch = repo.default_branch
             /\ \A j \in 1..Len(listed) :
                   1 + j <= Len(t) =>
                       /\ t[1 + j].kind = "jobs"
                       /\ t[1 + j].repo = repo.name
                       /\ t[1 + j].n = listed[j].id
             /\ IF Len(t) - 1 < Len(listed) THEN ~whole
                ELSE FetchesFollow(SubSeq(t, 2 + Len(listed), Len(t)), Tail(rs), whole)

\* C22: the fetches are strictly sequential: every repository-list request
\* comes before any other request, and after them each surviving repository
\* in order gets exactly one run listing on its default branch, followed by
\* one job listing per returned run, in run order, before the next
\* repository's run listing; a collection that completes has made all of them.
C22_FetchesSequential ==
    /\ \A i, j \in 1..Len(log) :
          (i < j /\ log[j].kind = "repos") => log[i].kind = "repos"
    /\ FetchesFollow(ListingFetches, DiscoveredRepos, pc = "group" \/ Returned)

C22_Witness ==
    /\ pc = "group"
    /\ api = WorldTimed
    /\ ~Truthy(repo_filter)
    /\ Len(ListingFetches) = 5
    /\ ListingFetches[1].ok /\ ListingFetches[4].ok
    /\ [i \in 1..5 |-> ListingFetches[i].kind] = <<"runs", "jobs", "jobs", "runs", "jobs">>

\* the group key of a record: the value of the field a recognized name
\* stands for, else of the key group_by.title(), 'Unknown' when absent
KeyOf(r, G) ==
    IF G \in RecognizedFields THEN r[FieldOf(G)] ELSE DictGet(r, Title(G), Str(s_Unknown))

\* the positions in R of the records with group key k, and the first of them
Occurrences(R, G, k) == {a \in 1..Len(R) : KeyOf(R[a], G) = k}
FirstOccurrence(R, G, k) ==
    CHOOSE a \in Occurrences(R, G, k) : \A b \in Occurrences(R, G, k) : a <= b

\* C23: the summaries are ordered by the first occurrence of their group key
\* in the input: every summary's key occurs in the input, and a summary
\* precedes another exactly when the first record with its key precedes the
\* first record with the other's key; neither keys nor counts are sorted.
C23_SummariesInFirstOccurrenceOrder ==
    (call.op = "_group_results" /\ call.returned) =>
        LET R == call.results
            G == call.group_by
            S == call.out
        IN
        /\ \A i \in 1..Len(S) : Occurrences(R, G, S[i][SummaryKey.Group]) # {}
        /\ \A i, j \in 1..Len(S) :
              i < j => FirstOccurrence(R, G, S[i][SummaryKey.Group])
                         < FirstOccurrence(R, G, S[j][SummaryKey.Group])

\* grouped by repository, web once and then API twice: web comes first,
\* though API is the smaller key and has the larger count
C23_Witness ==
    /\ call.op = "_group_results" /\ call.returned
    /\ call.group_by = grp.repo
    /\ [a \in 1..Len(call.results) |-> call.results[a][JobKey.Repo]]
          = <<Str(Payload.web), Str(Payload.API), Str(Payload.API)>>
    /\ [i \in 1..Len(call.out) |-> call.out[i][SummaryKey.Group]]
          = <<Str(Payload.web), Str(Payload.API)>>
    /\ call.out[2][SummaryKey.Total_Jobs] = IntVal(2)

\* C24: the Sample Repository of every summary is the repository name of the
\* first record of its group in input order.
C24_SampleIsFirstOfGroup ==
    (call.op = "_group_results" /\ call.returned) =>
        LET R == call.results
            G == call.group_by
            S == call.out
        IN  \A i \in 1..Len(S) :
              /\ Occurrences(R, G, S[i][SummaryKey.Group]) # {}
              /\ S[i][SummaryKey.Sample_Repository]
                    = R[FirstOccurrence(R, G, S[i][SummaryKey.Group])][JobKey.Repo]

\* one group of three records, of web and then twice of API: the sample is
\* web, neither the smallest, nor the most frequent, nor the last
C24_Witness ==
    /\ call.op = "_group_results" /\ call.returned
    /\ call.group_by = grp.status
    /\ [a \in 1..Len(call.results) |-> call.results[a][JobKey.Repo]]
          = <<Str(Payload.web), Str(Payload.API), Str(Payload.API)>>
    /\ Len(call.out) = 1
    /\ call.out[1][SummaryKey.Sample_Repository] = Str(Payload.web)

\* C25: the two classifications of a record agree for every label list: its
\* Runner Type is 'Self-hosted' exactly when its Cost Category is
\* 'Self-hosted (Custom Cost)', and a Cost Category 'Standard GitHub-hosted'
\* goes with the Runner Type 'GitHub-hosted'.
C25_ClassificationsConsistent ==
    (call.op = "record" /\ call.returned) =>
        LET runner_type   == call.out[JobKey.Runner_Type].s
            cost_category == call.out[JobKey.Cost_Category].s
        IN
        /\ runner_type = <<"S","e","l","f","-","h","o","s","t","e","d">>
             <=> cost_category = <<"S","e","l","f","-","h","o","s","t","e","d"," ",
                                   "(","C","u","s","t","o","m"," ","C","o","s","t",")">>
        /\ cost_category = <<"S","t","a","n","d","a","r","d"," ",
                              "G","i","t","H","u","b","-","h","o","s","t","e","d">>
             => runner_type = <<"G","i","t","H","u","b","-","h","o","s","t","e","d">>

\* a record of a job labelled Self-Hosted and ubuntu-latest: self-hosted in
\* both classifications
C25_Witness ==
    /\ call.op = "record" /\ call.returned
    /\ call.labels = <<RunnerLabel.Self_Hosted, RunnerLabel.ubuntu_latest>>
    /\ call.out[JobKey.Runner_Type] = Str(cls.Self_hosted)
    /\ call.out[JobKey.Cost_Category] = Str(cls.Self_hosted_Custom_Cost)

====
